---- MODULE Spec2Model ----
(***************************************************************************)
(* A model of the transport and administrative layers of astra-db-ts:      *)
(*   - HTTP2Strategy (src/src/api/http2.ts): one multiplexed session, the  *)
(*     per-request timer and the stream events of each request;            *)
(*   - AstraAdmin / AstraDbAdmin (src/unnamed/part_000,                    *)
(*     src/src/devops/astra-db-admin.ts): the administrative operations    *)
(*     and the status poll they await;                                     *)
(*   - the DevOps error types (src/src/devops/errors.ts);                  *)
(*   - HttpClient (src/src/api/http-client.ts) and the clients Db and      *)
(*     AstraDbAdmin clone from it.                                         *)
(***************************************************************************)
EXTENDS Integers, Sequences, FiniteSets, TLC

(***************************************************************************)
(* Bounds of the model.                                                    *)
(***************************************************************************)
NumReqs == 2          \* requests issued on one strategy instance
MaxSessions == 2      \* sessions after which the peer closes no more
MaxChunks == 2        \* 'data' events the peer delivers, over all streams
Tick == 5000          \* granularity of the clock, in milliseconds
MaxClients == 3       \* HttpClient objects constructed, the root client included
MaxErrors == 2        \* elements of the errors list of a DevOps response
MaxDepth == 1         \* containers around a value given to the codec

Reqs == 1..NumReqs

\* The r-th call of request(): odd calls carry a command body, even calls
\* none, and the two kinds have different timeouts.
BodyOf(r) == IF r % 2 = 1 THEN "cmd" ELSE "none"
TimeoutOf(r) == IF r % 2 = 1 THEN 30 ELSE 40

\* An optional value: undefined, or a value that is given.
None == [some |-> FALSE]
Some(v) == [some |-> TRUE, val |-> v]

\* URLs are sequences of text pieces; the first piece is scheme and host.
DataApiEndpoint == <<"https://db.apps.astra.datastax.com">>
DevOpsEndpoint == <<"https://api.astra.datastax.com", "/v2">>

\* new URL(baseURL).origin
Origin(url) == <<url[1]>>

\* The origin the strategy of the model was constructed with.
StrategyOrigin == Origin(DataApiEndpoint)

RootToken == "AstraCS:root"
AdminToken == "AstraCS:admin"

\* The timeoutError the r-th call of _request is given: the constructor of
\* another timeout error for odd calls, none for even calls.
TimeoutErrorOf(r) == IF r % 2 = 1 THEN Some("DevOpsAPITimeout") ELSE None

\* The ':status' the peer answers the r-th request with: odd calls succeed,
\* even calls get a server error.
StatusOf(r) == IF r % 2 = 1 THEN 200 ELSE 500

\* The peer sends body text one character per 'data' event.
Chars == {"1", "["}

VARIABLES
  closed,       \* HTTP2Strategy.closed
  session,      \* HTTP2Strategy.session: index into sessions
  sessions,     \* every session opened so far: [closed: BOOLEAN]
  reqs,         \* per request: the closure state of one call of request()
  uncaught,     \* what became of the session errors: "none" when there was
                \* none, "handled" when a listener took them, "uncaught"
                \* when an 'error' event found no listener
  clients,      \* every HttpClient constructed so far
  strategies,   \* every transport strategy constructed so far
  apc,          \* admin operation: "init", "trigger", "fetch", "sleep", "done"
  aop,          \* admin operation: its name and its blocking options
  trig,         \* the triggering request: "none", "pending", "resolved", "rejected"
  poll,         \* the arguments and state of the awaitStatus call in progress
  fetched,      \* the resource records the status fetches returned, in order
  fetchCount,   \* status fetches issued
  sleeps,       \* poll-interval sleeps started
  now,          \* the clock, in milliseconds
  aresult,      \* how the admin operation settled
  dbStatus,     \* the status the server reports for the database
  fcall         \* the last call of a pure function: its name, input and result

h2vars == <<closed, session, sessions, reqs, uncaught>>
cvars == <<clients, strategies>>
avars == <<apc, aop, trig, poll, fetched, fetchCount, sleeps, now, aresult, dbStatus>>
pvars == <<fcall>>
vars == <<closed, session, sessions, reqs, uncaught, clients, strategies,
          apc, aop, trig, poll, fetched, fetchCount, sleeps, now, aresult, dbStatus,
          fcall>>

(***************************************************************************)
(* Promise semantics: resolve/reject of a promise that is already settled  *)
(* is a no-op.  `settles` counts the changes of state the awaiting caller  *)
(* could observe.                                                          *)
(***************************************************************************)
PendingPromise == [state |-> "pending", value |-> <<>>, settles |-> 0]

SettleLastWins(p, st, v) ==
  [state |-> st, value |-> v, settles |-> p.settles + 1]

Settle(p, st, v) ==
  IF p.state = "pending"
    THEN [state |-> st, value |-> v, settles |-> p.settles + 1]
    ELSE p

\* new DataAPITimeout(info.data, info.timeout)
DataAPITimeout(data, timeout) ==
  [name |-> "DataAPITimeout", command |-> data, timeout |-> timeout]

\* new Error(message)
PlainError(message) == [name |-> "Error", message |-> message]

ClosedMessage == "Cannot make http2 request when client is closed"
ParseMessage == "Unable to parse response as JSON, got: "

(***************************************************************************)
(* JSON.parse on the body text.  The text is a sequence of characters of   *)
(* Chars; the grammar is value ::= digits | "[" "]" | "[" value "]".       *)
(* A number parses to its decimal value, an array to a tuple.  The peer    *)
(* of this model sends the characters of Chars only.                       *)
(***************************************************************************)
AllDigits(t) == Len(t) > 0 /\ \A i \in 1..Len(t) : t[i] = "1"

RECURSIVE IsJSON(_)
IsJSON(t) ==
  \/ AllDigits(t)
  \/ /\ Len(t) >= 2
     /\ t[1] = "["
     /\ t[Len(t)] = "]"
     /\ \/ Len(t) = 2
        \/ IsJSON(SubSeq(t, 2, Len(t) - 1))

RECURSIVE DigitsValue(_)
DigitsValue(t) ==
  IF t = <<>> THEN 0 ELSE 10 * DigitsValue(SubSeq(t, 1, Len(t) - 1)) + 1

RECURSIVE JSONParse(_)
JSONParse(t) ==
  IF AllDigits(t) THEN DigitsValue(t)
  ELSE IF Len(t) = 2 THEN <<>>
  ELSE <<JSONParse(SubSeq(t, 2, Len(t) - 1))>>

(***************************************************************************)
(* The state of one call of request().                                     *)
(*   phase: "idle" not yet called; "nostream" rejected at the closed       *)
(*          guard; "open" stream sent, nothing received; "responded"       *)
(*          'response' received; "ended" 'end' received; "errored"         *)
(*          'error' received.                                              *)
(*   timer: "none", "armed", "cleared" (clearTimeout), "fired".            *)
(*   calls: the calls of strategy.request made for this request;           *)
(*   streams: the streams opened for it with session.request;              *)
(*   timeoutError: the timeoutError of the info the call was given.        *)
(***************************************************************************)
IdleReq ==
  [phase |-> "idle", sess |-> 0, timer |-> "none",
   url |-> <<>>, data |-> "none", timeout |-> 0, headers |-> <<>>,
   status |-> 0, responseBody |-> <<>>, promise |-> PendingPromise,
   calls |-> 0, streams |-> 0, timeoutError |-> None]

\* The first occurrence of pat in s starts at i.
Occurs(s, pat, i) ==
  /\ i + Len(pat) - 1 <= Len(s)
  /\ SubSeq(s, i, i + Len(pat) - 1) = pat

\* s.replace(pat, ''): the first occurrence of pat is removed, if there is one.
StrReplace(s, pat) ==
  IF \E i \in 1..Len(s) : Occurs(s, pat, i)
    THEN LET i == CHOOSE k \in 1..Len(s) :
                    Occurs(s, pat, k) /\ \A j \in 1..(k - 1) : ~Occurs(s, pat, j)
         IN SubSeq(s, 1, i - 1) \o SubSeq(s, i + Len(pat), Len(s))
    ELSE s

\* The headers of the stream: ':path' is the url without the origin of the
\* strategy, followed by the query string of the params.
Headers(info) ==
  [path |-> StrReplace(info.url, StrategyOrigin) \o <<"?">> \o info.params,
   method |-> info.method,
   token |-> info.token,
   userAgent |-> info.userAgent]

\* http2.connect(origin): a new open session, connected to the origin of the
\* strategy and with listeners for 'error' and 'socketError', appended to
\* those opened.
ConnectNoHandlers(ss) ==
  Append(ss, [closed |-> FALSE, origin |-> StrategyOrigin, handlers |-> {}])

Connect(ss) ==
  Append(ss, [closed |-> FALSE, origin |-> StrategyOrigin,
              handlers |-> {"error", "socketError"}])

\* _reviveSession(): the current handle when it is open, else a new one.
\* Returns the pair <<handle, sessions>>.
ReviveSessionKeepsOld(sess, ss) ==
  IF sess # 0 THEN <<sess, ss>> ELSE <<Len(ss) + 1, Connect(ss)>>

ReviveSession(sess, ss) ==
  IF sess # 0 /\ ~ss[sess].closed
    THEN <<sess, ss>>
    ELSE <<Len(ss) + 1, Connect(ss)>>

\* clearTimeout(timer): only a timer that has not run yet is affected.
ClearTimeout(t) == IF t = "armed" THEN "cleared" ELSE t

\* constructor: this.session = this._reviveSession() with no session yet.
H2Init ==
  /\ closed = FALSE
  /\ session = ReviveSession(0, <<>>)[1]
  /\ sessions = ReviveSession(0, <<>>)[2]
  /\ reqs = [r \in Reqs |-> IdleReq]
  /\ uncaught = "none"

\* Requests are numbered in the order of their calls: the r-th call of
\* request() is made after the calls before it.
\* request(info), the closed guard: the executor throws, the promise rejects.
RequestWhenClosed(r) ==
  /\ reqs[r].phase = "idle"
  /\ \A q \in Reqs : q < r => reqs[q].phase # "idle"
  /\ closed
  /\ reqs' = [reqs EXCEPT ![r].phase = "nostream",
                          ![r].calls = @ + 1,
                          ![r].promise = Settle(@, "rejected", PlainError(ClosedMessage))]
  /\ UNCHANGED <<closed, session, sessions, uncaught, avars, cvars, pvars>>

\* request(info) past the closed guard: revive the session if the peer closed
\* it, arm the timer, send the stream on this.session.
SendStreamMovesInFlight(r, info) ==
  /\ reqs[r].phase = "idle"
  /\ \A q \in Reqs : q < r => reqs[q].phase # "idle"
  /\ LET rev == IF sessions[session].closed
                  THEN ReviveSession(session, sessions)
                  ELSE <<session, sessions>>
     IN /\ session' = rev[1]
        /\ sessions' = rev[2]
        /\ reqs' = [q \in Reqs |->
             IF q = r
               THEN [reqs[r] EXCEPT !.phase = "open",
                                    !.calls = @ + 1,
                                    !.streams = @ + 1,
                                    !.sess = rev[1],
                                    !.timer = "armed",
                                    !.url = info.url,
                                    !.data = info.data,
                                    !.timeout = info.timeout,
                                    !.timeoutError = info.timeoutError,
                                    !.headers = Headers(info)]
             ELSE IF reqs[q].phase \in {"open", "responded"}
               THEN [reqs[q] EXCEPT !.sess = rev[1]]
               ELSE reqs[q]]
  /\ UNCHANGED <<closed, uncaught, avars, cvars, pvars>>

SendStreamAlwaysConnects(r, info) ==
  /\ reqs[r].phase = "idle"
  /\ \A q \in Reqs : q < r => reqs[q].phase # "idle"
  /\ LET rev == <<Len(sessions) + 1, Connect(sessions)>>
     IN /\ session' = rev[1]
        /\ sessions' = rev[2]
        /\ reqs' = [reqs EXCEPT ![r].phase = "open",
                                ![r].calls = @ + 1,
                                ![r].streams = @ + 1,
                                ![r].sess = rev[1],
                                ![r].timer = "armed",
                                ![r].url = info.url,
                                ![r].data = info.data,
                                ![r].timeout = info.timeout,
                                ![r].timeoutError = info.timeoutError,
                                ![r].headers = Headers(info)]
  /\ UNCHANGED <<closed, uncaught, avars, cvars, pvars>>

SendStreamStaleCheck(r, info) ==
  /\ reqs[r].phase = "idle"
  /\ \A q \in Reqs : q < r => reqs[q].phase # "idle"
  /\ LET rev == IF sessions[1].closed
                  THEN <<Len(sessions) + 1, Connect(sessions)>>
                  ELSE <<session, sessions>>
     IN /\ session' = rev[1]
        /\ sessions' = rev[2]
        /\ reqs' = [reqs EXCEPT ![r].phase = "open",
                                ![r].calls = @ + 1,
                                ![r].streams = @ + 1,
                                ![r].sess = rev[1],
                                ![r].timer = "armed",
                                ![r].url = info.url,
                                ![r].data = info.data,
                                ![r].timeout = info.timeout,
                                ![r].timeoutError = info.timeoutError,
                                ![r].headers = Headers(info)]
  /\ UNCHANGED <<closed, uncaught, avars, cvars, pvars>>

SendStream(r, info) ==
  /\ reqs[r].phase = "idle"
  /\ \A q \in Reqs : q < r => reqs[q].phase # "idle"
  /\ LET rev == IF sessions[session].closed
                  THEN ReviveSession(session, sessions)
                  ELSE <<session, sessions>>
     IN /\ session' = rev[1]
        /\ sessions' = rev[2]
        /\ reqs' = [reqs EXCEPT ![r].phase = "open",
                                ![r].calls = @ + 1,
                                ![r].streams = @ + 1,
                                ![r].sess = rev[1],
                                ![r].timer = "armed",
                                ![r].url = info.url,
                                ![r].data = info.data,
                                ![r].timeout = info.timeout,
                                ![r].timeoutError = info.timeoutError,
                                ![r].headers = Headers(info)]
  /\ UNCHANGED <<closed, uncaught, avars, cvars, pvars>>

\* request(info) on a strategy that is not closed.
RequestSendNoClosedGuard(r, info) ==
  SendStream(r, info)

RequestSend(r, info) ==
  /\ ~closed
  /\ SendStream(r, info)

\* The timer callback: reject(new DataAPITimeout(info.data, info.timeout)).
TimerFireDefaultTimeout(r) ==
  /\ reqs[r].timer = "armed"
  /\ reqs' = [reqs EXCEPT ![r].timer = "fired",
                          ![r].promise = Settle(@, "rejected",
                                DataAPITimeout(reqs[r].data, TimeoutOf(1)))]
  /\ UNCHANGED <<closed, session, sessions, uncaught, avars, cvars, pvars>>

TimerFireUsesTimeoutError(r) ==
  /\ reqs[r].timer = "armed"
  /\ reqs' = [reqs EXCEPT ![r].timer = "fired",
                          ![r].promise = Settle(@, "rejected",
                                IF reqs[r].timeoutError.some
                                  THEN [name |-> reqs[r].timeoutError.val,
                                        command |-> reqs[r].data,
                                        timeout |-> reqs[r].timeout]
                                  ELSE DataAPITimeout(reqs[r].data, reqs[r].timeout))]
  /\ UNCHANGED <<closed, session, sessions, uncaught, avars, cvars, pvars>>

TimerFire(r) ==
  /\ reqs[r].timer = "armed"
  /\ reqs' = [reqs EXCEPT ![r].timer = "fired",
                          ![r].promise = Settle(@, "rejected",
                                DataAPITimeout(reqs[r].data, reqs[r].timeout))]
  /\ UNCHANGED <<closed, session, sessions, uncaught, avars, cvars, pvars>>

\* req.on('response'): clearTimeout(timer); status = data[':status'] ?? 0.
OnResponseSharedStatus(r, st) ==
  /\ reqs[r].phase = "open"
  /\ reqs' = [q \in Reqs |->
       IF q = r THEN [reqs[q] EXCEPT !.phase = "responded",
                                     !.timer = ClearTimeout(@),
                                     !.status = st]
       ELSE IF reqs[q].phase \in {"open", "responded"}
         THEN [reqs[q] EXCEPT !.status = st]
       ELSE reqs[q]]
  /\ UNCHANGED <<closed, session, sessions, uncaught, avars, cvars, pvars>>

OnResponse(r, st) ==
  /\ reqs[r].phase = "open"
  /\ reqs' = [reqs EXCEPT ![r].phase = "responded",
                          ![r].timer = ClearTimeout(@),
                          ![r].status = st]
  /\ UNCHANGED <<closed, session, sessions, uncaught, avars, cvars, pvars>>

RECURSIVE SumLen(_)
SumLen(n) == IF n = 0 THEN 0 ELSE Len(reqs[n].responseBody) + SumLen(n - 1)

\* The 'data' events the peer has delivered, over all streams.
ChunksDelivered == SumLen(NumReqs)

\* req.on('data'): responseBody += chunk.
OnDataKeepsLast(r, chunk) ==
  /\ reqs[r].phase = "responded"
  /\ ChunksDelivered < MaxChunks
  /\ reqs' = [reqs EXCEPT ![r].responseBody = <<chunk>>]
  /\ UNCHANGED <<closed, session, sessions, uncaught, avars, cvars, pvars>>

OnData(r, chunk) ==
  /\ reqs[r].phase = "responded"
  /\ ChunksDelivered < MaxChunks
  /\ reqs' = [reqs EXCEPT ![r].responseBody = Append(@, chunk)]
  /\ UNCHANGED <<closed, session, sessions, uncaught, avars, cvars, pvars>>

\* req.on('end'): clearTimeout(timer); resolve the parsed body or reject.
\* A stream the peer resets without an error ends without a 'response'.
OnEndRejectsErrorStatus(r) ==
  /\ reqs[r].phase \in {"open", "responded"}
  /\ LET body == reqs[r].responseBody
     IN reqs' = [reqs EXCEPT
          ![r].phase = "ended",
          ![r].timer = ClearTimeout(@),
          ![r].promise =
             IF IsJSON(body) /\ reqs[r].status < 400
               THEN Settle(@, "resolved",
                      [status |-> reqs[r].status, data |-> JSONParse(body)])
               ELSE Settle(@, "rejected",
                      [name |-> "Error", message |-> ParseMessage, raw |-> body])]
  /\ UNCHANGED <<closed, session, sessions, uncaught, avars, cvars, pvars>>

OnEndResolvesEmpty(r) ==
  /\ reqs[r].phase \in {"open", "responded"}
  /\ LET body == reqs[r].responseBody
     IN reqs' = [reqs EXCEPT
          ![r].phase = "ended",
          ![r].timer = ClearTimeout(@),
          ![r].promise =
             Settle(@, "resolved",
                    [status |-> reqs[r].status,
                     data |-> IF IsJSON(body) THEN JSONParse(body) ELSE <<>>])]
  /\ UNCHANGED <<closed, session, sessions, uncaught, avars, cvars, pvars>>

OnEnd(r) ==
  /\ reqs[r].phase \in {"open", "responded"}
  /\ LET body == reqs[r].responseBody
     IN reqs' = [reqs EXCEPT
          ![r].phase = "ended",
          ![r].timer = ClearTimeout(@),
          ![r].promise =
             IF IsJSON(body)
               THEN Settle(@, "resolved",
                      [status |-> reqs[r].status, data |-> JSONParse(body)])
               ELSE Settle(@, "rejected",
                      [name |-> "Error", message |-> ParseMessage, raw |-> body])]
  /\ UNCHANGED <<closed, session, sessions, uncaught, avars, cvars, pvars>>

\* req.on('error'): clearTimeout(timer); reject(error).
OnErrorResends(r) ==
  /\ reqs[r].phase \in {"open", "responded"}
  /\ reqs' = [reqs EXCEPT ![r].phase = IF reqs[r].streams < 2 THEN "open" ELSE "errored",
                          ![r].streams = IF @ < 2 THEN @ + 1 ELSE @,
                          ![r].status = 0,
                          ![r].responseBody = <<>>,
                          ![r].timer = IF reqs[r].streams < 2 THEN @ ELSE ClearTimeout(@),
                          ![r].promise = IF reqs[r].streams < 2 THEN @
                                         ELSE Settle(@, "rejected", PlainError("stream error"))]
  /\ UNCHANGED <<closed, session, sessions, uncaught, avars, cvars, pvars>>

OnError(r) ==
  /\ reqs[r].phase \in {"open", "responded"}
  /\ reqs' = [reqs EXCEPT ![r].phase = "errored",
                          ![r].timer = ClearTimeout(@),
                          ![r].promise = Settle(@, "rejected", PlainError("stream error"))]
  /\ UNCHANGED <<closed, session, sessions, uncaught, avars, cvars, pvars>>

\* The peer closes the current session (GOAWAY): session.closed becomes true.
PeerClose ==
  /\ Len(sessions) < MaxSessions
  /\ ~sessions[session].closed
  /\ sessions' = [sessions EXCEPT ![session].closed = TRUE]
  /\ UNCHANGED <<closed, session, reqs, uncaught, avars, cvars, pvars>>

\* The current session emits 'error' or 'socketError' and is destroyed.  The
\* listener attached at connect does nothing; an 'error' event without a
\* listener is thrown as an uncaught exception.
SessionError(ev) ==
  /\ Len(sessions) < MaxSessions
  /\ ~sessions[session].closed
  /\ sessions' = [sessions EXCEPT ![session].closed = TRUE]
  /\ uncaught' = IF uncaught = "uncaught"
                      \/ (ev = "error" /\ ev \notin sessions[session].handlers)
                   THEN "uncaught"
                   ELSE "handled"
  /\ UNCHANGED <<closed, session, reqs, avars, cvars, pvars>>

SessionEvents == {"error", "socketError"}

\* close(): this.session.close(); this.closed = true.
Close ==
  /\ sessions' = [sessions EXCEPT ![session].closed = TRUE]
  /\ closed' = TRUE
  /\ UNCHANGED <<session, reqs, uncaught, avars, cvars, pvars>>

(***************************************************************************)
(* HttpClient (src/src/api/http-client.ts) and the clients cloned from it  *)
(* by Db (src/src/client/db.ts) and AstraDbAdmin.  Strategy 1 is the       *)
(* HTTP2Strategy whose session and requests the model follows.             *)
(***************************************************************************)
\* CLIENT_USER_AGENT, DEFAULT_TIMEOUT, DEFAULT_METHOD (src/api/constants).
CLIENT_USER_AGENT == <<"astra-db-ts", "/", "1.0.0">>
DEFAULT_TIMEOUT == 30000
DEFAULT_METHOD == "GET"

\* a ?? b
Coalesce(o, d) == IF o.some THEN o.val ELSE d

\* The text of one caller: `${c[0]}/${c[1]}` with a version, c[0] without.
CallerTextAlwaysVersion(c) == <<c.name, "/", c.version>>

CallerText(c) == IF c.version # "" THEN <<c.name, "/", c.version>> ELSE <<c.name>>

\* callers.map(...).join(' ')
RECURSIVE JoinCallers(_)
JoinCallers(cs) ==
  IF cs = <<>> THEN <<>>
  ELSE IF Len(cs) = 1 THEN CallerText(cs[1])
  ELSE CallerText(cs[1]) \o <<" ">> \o JoinCallers(Tail(cs))

\* String.prototype.trim on a text of pieces.
RECURSIVE Trim(_)
Trim(t) ==
  IF t = <<>> THEN t
  ELSE IF t[1] = " " THEN Trim(Tail(t))
  ELSE IF t[Len(t)] = " " THEN Trim(SubSeq(t, 1, Len(t) - 1))
  ELSE t

\* The callers of buildUserAgent: none when caller is not given, caller when
\* it is an array of callers ([many |-> cs]), [caller] when it is one caller
\* ([one |-> c]).  An empty array is taken for one caller of no text, which
\* join renders like no caller.
CallersOf(caller) ==
  IF ~caller.some THEN <<>>
  ELSE IF "many" \in DOMAIN caller.val THEN caller.val.many
  ELSE <<caller.val.one>>

\* buildUserAgent(client, caller)
BuildUserAgent(client, caller) ==
  Trim(JoinCallers(CallersOf(caller)) \o <<" ">> \o client)

\* The options of the constructor that are not given.
NoOptions ==
  [baseUrl |-> <<>>, applicationToken |-> "", logSkippedOptions |-> None,
   requestStrategy |-> 0, useHttp2 |-> None, baseApiPath |-> None,
   userAgent |-> None, caller |-> None]

\* options.useHttp2 !== false: the choice of the strategy when none is given.
SelectsHttp2OnlyWhenAsked(options) == options.useHttp2 = Some(TRUE)

SelectsHttp2(options) == options.useHttp2 # Some(FALSE)

\* new cons(options), window telling whether a global of that name exists.
\* The result is the client, with the strategies and the sessions there are
\* after the construction; ok is FALSE when the constructor throws, and error
\* is the message it throws.  A new HTTP2Strategy opens its session at once.
\* clonedFrom, given and useHttp2 are not fields of the class: they record the
\* client cloned and the requestStrategy and useHttp2 options of the call.
NewHttpClientDefersToken(window, cons, options, strats, ss) ==
  IF window
    THEN [ok |-> FALSE, error |-> "not for use in a web browser",
          strategies |-> strats, sessions |-> ss]
  ELSE IF options.baseUrl = <<>>
    THEN [ok |-> FALSE, error |-> "baseUrl required for initialization",
          strategies |-> strats, sessions |-> ss]
    ELSE
      LET given == options.requestStrategy # 0
          http2 == SelectsHttp2(options)
          strats2 ==
            IF given THEN strats
            ELSE IF http2
              THEN Append(strats, [kind |-> "http2", origin |-> Origin(options.baseUrl)])
              ELSE Append(strats, [kind |-> "http1", origin |-> <<>>])
          ss2 == IF ~given /\ http2 THEN ReviveSession(0, ss)[2] ELSE ss
      IN [ok |-> TRUE,
          client |->
            [cons |-> cons,
             baseUrl |-> IF options.baseApiPath.some
                           THEN options.baseUrl \o <<"/">> \o options.baseApiPath.val
                           ELSE options.baseUrl,
             applicationToken |-> options.applicationToken,
             logSkippedOptions |-> Coalesce(options.logSkippedOptions, FALSE),
             requestStrategy |-> IF given THEN options.requestStrategy ELSE Len(strats2),
             userAgent |-> Coalesce(options.userAgent,
                                    BuildUserAgent(CLIENT_USER_AGENT, options.caller)),
             namespace |-> "",
             clonedFrom |-> 0,
             given |-> options.requestStrategy,
             useHttp2 |-> options.useHttp2],
          strategies |-> strats2,
          sessions |-> ss2]

NewHttpClient(window, cons, options, strats, ss) ==
  IF window
    THEN [ok |-> FALSE, error |-> "not for use in a web browser",
          strategies |-> strats, sessions |-> ss]
  ELSE IF options.baseUrl = <<>>
    THEN [ok |-> FALSE, error |-> "baseUrl required for initialization",
          strategies |-> strats, sessions |-> ss]
  ELSE IF options.applicationToken = ""
    THEN [ok |-> FALSE, error |-> "applicationToken required for initialization",
          strategies |-> strats, sessions |-> ss]
    ELSE
      LET given == options.requestStrategy # 0
          http2 == SelectsHttp2(options)
          strats2 ==
            IF given THEN strats
            ELSE IF http2
              THEN Append(strats, [kind |-> "http2", origin |-> Origin(options.baseUrl)])
              ELSE Append(strats, [kind |-> "http1", origin |-> <<>>])
          ss2 == IF ~given /\ http2 THEN ReviveSession(0, ss)[2] ELSE ss
      IN [ok |-> TRUE,
          client |->
            [cons |-> cons,
             baseUrl |-> IF options.baseApiPath.some
                           THEN options.baseUrl \o <<"/">> \o options.baseApiPath.val
                           ELSE options.baseUrl,
             applicationToken |-> options.applicationToken,
             logSkippedOptions |-> Coalesce(options.logSkippedOptions, FALSE),
             requestStrategy |-> IF given THEN options.requestStrategy ELSE Len(strats2),
             userAgent |-> Coalesce(options.userAgent,
                                    BuildUserAgent(CLIENT_USER_AGENT, options.caller)),
             namespace |-> "",
             clonedFrom |-> 0,
             given |-> options.requestStrategy,
             useHttp2 |-> options.useHttp2],
          strategies |-> strats2,
          sessions |-> ss2]

\* The options cloneInto passes to the constructor of the clone.
CloneOptionsNoStrategy(c) ==
  [NoOptions EXCEPT !.baseUrl = c.baseUrl,
                    !.applicationToken = c.applicationToken,
                    !.logSkippedOptions = Some(c.logSkippedOptions),
                    !.userAgent = Some(c.userAgent)]

CloneOptions(c) ==
  [NoOptions EXCEPT !.baseUrl = c.baseUrl,
                    !.applicationToken = c.applicationToken,
                    !.logSkippedOptions = Some(c.logSkippedOptions),
                    !.requestStrategy = c.requestStrategy,
                    !.userAgent = Some(c.userAgent)]

\* The client the application constructs first, and what it constructs.
RootOptions ==
  [NoOptions EXCEPT !.baseUrl = DataApiEndpoint,
                    !.applicationToken = RootToken,
                    !.baseApiPath = Some("api/json/v1")]

RootConstruction == NewHttpClient(FALSE, "HttpClient", RootOptions, <<>>, <<>>)

RootClient == RootConstruction.client

CInit ==
  /\ clients = <<RootClient>>
  /\ strategies = RootConstruction.strategies

\* HttpClient._request(info): the info handed to the strategy.
StrategyInfoNoDefaultTimeout(c, info) ==
  [url |-> info.url,
   data |-> info.data,
   timeout |-> info.timeout,
   method |-> Coalesce(info.method, DEFAULT_METHOD),
   params |-> Coalesce(info.params, <<>>),
   token |-> c.applicationToken,
   userAgent |-> c.userAgent,
   timeoutError |-> info.timeoutError]

StrategyInfo(c, info) ==
  [url |-> info.url,
   data |-> info.data,
   timeout |-> IF info.timeout # 0 THEN info.timeout ELSE DEFAULT_TIMEOUT,
   method |-> Coalesce(info.method, DEFAULT_METHOD),
   params |-> Coalesce(info.params, <<>>),
   token |-> c.applicationToken,
   userAgent |-> c.userAgent,
   timeoutError |-> info.timeoutError]

\* The r-th request as the client c is asked to make it: the url is the base
\* URL of the client followed by the path of the resource.
CallOf(c, r) ==
  [url |-> c.baseUrl \o <<"/", "resource">>,
   data |-> BodyOf(r),
   timeout |-> TimeoutOf(r),
   method |-> Some("POST"),
   params |-> None,
   timeoutError |-> TimeoutErrorOf(r)]

\* The info the r-th call of request() gets when the root client makes it.
InfoOf(r) == StrategyInfo(RootClient, CallOf(RootClient, r))

\* cloneInto(cons, initialize), up to the call of initialize.
CloneInto(c, cons, strats, ss) == NewHttpClient(FALSE, cons, CloneOptions(c), strats, ss)

\* new HttpClient(options) by the application, with useHttp2 left out, true
\* or false.
NewClient(useHttp2) ==
  /\ Len(clients) < MaxClients
  /\ LET n == NewHttpClient(FALSE, "HttpClient", [RootOptions EXCEPT !.useHttp2 = useHttp2],
                            strategies, sessions)
     IN /\ n.ok
        /\ clients' = Append(clients, n.client)
        /\ strategies' = n.strategies
        /\ sessions' = n.sessions
  /\ UNCHANGED <<closed, session, reqs, uncaught, avars, pvars>>

\* new Db(httpClient, name): cloneInto(DataApiHttpClient, c => c.namespace = name).
MkDb(c, name) ==
  /\ Len(clients) < MaxClients
  /\ LET n == CloneInto(clients[c], "DataApiHttpClient", strategies, sessions)
     IN /\ n.ok
        /\ clients' = Append(clients, [n.client EXCEPT !.namespace = name,
                                                       !.clonedFrom = c])
        /\ strategies' = n.strategies
        /\ sessions' = n.sessions
  /\ UNCHANGED <<closed, session, reqs, uncaught, avars, pvars>>

\* The options an AstraDbAdmin is spawned with.
CustomEndpoint == <<"https://api.dev.cloud.datastax.com", "/v2">>
AdminSpawnOptions ==
  [endpointUrl : {None, Some(CustomEndpoint)}, adminToken : {None, Some(AdminToken)}]

\* new AstraDbAdmin(db, httpClient, options): cloneInto(DevopsApiHttpClient,
\* c => c.baseUrl = options.endpointUrl ?? DEFAULT_DEVOPS_API_ENDPOINT), then
\* setToken(options.adminToken) when an admin token is given.
MkDbAdmin(c, options) ==
  /\ Len(clients) < MaxClients
  /\ LET n == CloneInto(clients[c], "DevopsApiHttpClient", strategies, sessions)
     IN /\ n.ok
        /\ clients' = Append(clients,
             [n.client EXCEPT
                !.baseUrl = Coalesce(options.endpointUrl, DevOpsEndpoint),
                !.applicationToken = Coalesce(options.adminToken, @),
                !.clonedFrom = c])
        /\ strategies' = n.strategies
        /\ sessions' = n.sessions
  /\ UNCHANGED <<closed, session, reqs, uncaught, avars, pvars>>

\* HttpClient.isUsingHttp2(): this.requestStrategy instanceof HTTP2Strategy
IsUsingHttp2(c, strats) == strats[c.requestStrategy].kind = "http2"

\* HttpClient.isClosed(): this.requestStrategy.closed.  cl is the closed flag
\* of the first strategy; the HTTP/2 strategies constructed after it are never
\* closed here, and an HTTP/1.1 strategy has no such flag.
IsClosed(c, strats, cl) ==
  IF c.requestStrategy = 1 THEN Some(cl)
  ELSE IF strats[c.requestStrategy].kind = "http2" THEN Some(FALSE)
  ELSE None

\* The own properties the constructor of HttpClient leaves on the client: the
\* token, defined under the symbol applicationTokenKey and not enumerable, and
\* the four assigned fields.  field is the field of the client record that
\* holds the value of the property.
OwnPropertiesPlainField(c) ==
  {[key |-> "applicationToken", symbol |-> FALSE, enumerable |-> TRUE,
    field |-> "applicationToken"]}
  \cup {[key |-> k, symbol |-> FALSE, enumerable |-> TRUE, field |-> k] :
          k \in {"baseUrl", "logSkippedOptions", "requestStrategy", "userAgent"}}

OwnProperties(c) ==
  {[key |-> "applicationToken", symbol |-> TRUE, enumerable |-> FALSE,
    field |-> "applicationToken"]}
  \cup {[key |-> k, symbol |-> FALSE, enumerable |-> TRUE, field |-> k] :
          k \in {"baseUrl", "logSkippedOptions", "requestStrategy", "userAgent"}}

\* The client c makes the r-th request: _request(info) hands the info to the
\* request() of its strategy.
ClientRequest(c, r) ==
  /\ clients[c].requestStrategy = 1
  /\ RequestSend(r, StrategyInfo(clients[c], CallOf(clients[c], r)))

ClientRequestWhenClosed(c, r) ==
  /\ clients[c].requestStrategy = 1
  /\ RequestWhenClosed(r)

\* HttpClient.close(): this.requestStrategy.close?.()
ClientClose(c) ==
  /\ clients[c].requestStrategy = 1
  /\ Close

NextClient ==
  \/ \E u \in {None, Some(TRUE), Some(FALSE)} : NewClient(u)
  \/ \E c \in 1..Len(clients) : MkDb(c, "ns")
  \/ \E c \in 1..Len(clients), o \in AdminSpawnOptions : MkDbAdmin(c, o)
  \/ \E c \in 1..Len(clients), r \in Reqs : ClientRequest(c, r)
  \/ \E c \in 1..Len(clients), r \in Reqs : ClientRequestWhenClosed(c, r)
  \/ \E c \in 1..Len(clients) : ClientClose(c)
  \/ PeerClose

Next ==
  \/ \E r \in Reqs : RequestWhenClosed(r)
  \/ \E r \in Reqs : RequestSend(r, InfoOf(r))
  \/ \E r \in Reqs : TimerFire(r)
  \/ \E r \in Reqs : OnResponse(r, StatusOf(r))
  \/ \E r \in Reqs, c \in Chars : OnData(r, c)
  \/ \E r \in Reqs : OnEnd(r)
  \/ \E r \in Reqs : OnError(r)
  \/ PeerClose
  \/ Close

\* The strategy with the errors of its session.
NextSession ==
  \/ Next
  \/ \E ev \in SessionEvents : SessionError(ev)


(***************************************************************************)
(* The administrative layer.                                               *)
(***************************************************************************)
Statuses ==
  {"PENDING", "INITIALIZING", "ACTIVE", "MAINTENANCE",
   "TERMINATING", "TERMINATED", "PARKED"}

DbId == "db1"
DbUrl(id) == <<"/databases/", id>>

\* The blocking options of a call: pollInterval 0 stands for "not given".
BlockingOptions ==
  [blocking : BOOLEAN, pollInterval : {0, Tick}, timeout : {Tick, 3 * Tick}]

\* Time a request may take to settle.
RequestDurations == {0, Tick}

OpNames == {"createDatabase", "dropDatabase", "createNamespace", "dropNamespace", "drop"}

\* The resource record the server returns for GET /databases/<id>.
DbRecord(id, st) ==
  [id |-> id, status |-> st, info |-> [name |-> "astra-test-db"]]

FetchResponse(id, st) == [status |-> 200, data |-> DbRecord(id, st)]

\* errors.ts: new DevOpsAPITimeout(url, timeout)
DevOpsAPITimeoutNoDuration(url, timeout) ==
  [name |-> "DevOpsAPITimeout",
   message |-> <<"Command timed out after ", timeout, "ms">>,
   url |-> url, timeout |-> 0]

DevOpsAPITimeout(url, timeout) ==
  [name |-> "DevOpsAPITimeout",
   message |-> <<"Command timed out after ", timeout, "ms">>,
   url |-> url, timeout |-> timeout]

\* errors.ts: new DevOpsUnexpectedStateError(message, raw)
DevOpsUnexpectedStateErrorNoInfo(message, raw) ==
  [name |-> "DevOpsUnexpectedStateError", message |-> message,
   dbInfo |-> <<>>, status |-> raw.status]

DevOpsUnexpectedStateError(message, raw) ==
  [name |-> "DevOpsUnexpectedStateError", message |-> message,
   dbInfo |-> raw.data, status |-> raw.status]

\* The rejection of a request of the DevOps client (response error).
RequestRejection == [name |-> "DevOpsAPIResponseError"]

\* createDatabase: awaitStatus(db, 'ACTIVE', ['INITIALIZING', 'PENDING'], options, 10000)
CreateDatabaseTarget == "ACTIVE"
CreateDatabaseLegalNoPending == {"INITIALIZING"}
CreateDatabaseLegal == {"INITIALIZING", "PENDING"}
CreateDatabasePollInterval == 10000

\* dropDatabase: awaitStatus({ id }, 'TERMINATED', ['TERMINATING'], options, 10000)
DropDatabaseTargetActive == "ACTIVE"
DropDatabaseTarget == "TERMINATED"
DropDatabaseLegal == {"TERMINATING"}
DropDatabasePollInterval == 10000

NoPoll == [id |-> "", target |-> "", legal |-> {}, interval |-> 0, timeout |-> 0, start |-> 0]
Unsettled == [kind |-> "pending", error |-> <<>>]
Returned == [kind |-> "ok", error |-> <<>>]
Thrown(e) == [kind |-> "error", error |-> e]

\* The clock stops the model at this value; no poll of the model gets there.
ClockCap == 5 * Tick + CreateDatabasePollInterval

AInit ==
  /\ apc = "init"
  /\ aop = [name |-> "", options |-> [blocking |-> TRUE, pollInterval |-> 0, timeout |-> Tick]]
  /\ trig = "none"
  /\ poll = NoPoll
  /\ fetched = <<>>
  /\ fetchCount = 0
  /\ sleeps = 0
  /\ now = 0
  /\ aresult = Unsettled
  /\ dbStatus = "ACTIVE"

(***************************************************************************)
(* awaitStatus(db, target, legalStates, options, defaultPollInterval) of   *)
(* the DevOps client.  With blocking disabled it returns at once; else it  *)
(* fetches the status, returns on the target, throws on a status outside   *)
(* legalStates, throws a timeout once the time since its start exceeds the *)
(* timeout, and otherwise sleeps the poll interval and fetches again.      *)
(***************************************************************************)
\* The call, up to its first suspension point.
AwaitStatusCall(id, target, legal, options, defaultPollInterval) ==
  IF options.blocking = FALSE
    THEN /\ apc' = "done"
         /\ aresult' = Returned
         /\ UNCHANGED <<poll, fetchCount>>
    ELSE /\ apc' = "fetch"
         /\ poll' = [id |-> id, target |-> target, legal |-> legal,
                     interval |-> IF options.pollInterval # 0
                                    THEN options.pollInterval
                                    ELSE defaultPollInterval,
                     timeout |-> options.timeout,
                     start |-> now']
         /\ fetchCount' = fetchCount + 1
         /\ UNCHANGED aresult

\* What awaitStatus does with the response of a status fetch.
AwaitStatusAfterFetchNoTimeout(resp) ==
  IF resp.data.status = poll.target
    THEN apc' = "done" /\ aresult' = Returned
  ELSE IF resp.data.status \notin poll.legal
    THEN /\ apc' = "done"
         /\ aresult' = Thrown(DevOpsUnexpectedStateError("unexpected state", resp))
  ELSE apc' = "sleep" /\ UNCHANGED aresult

AwaitStatusAfterFetch(resp) ==
  IF resp.data.status = poll.target
    THEN apc' = "done" /\ aresult' = Returned
  ELSE IF resp.data.status \notin poll.legal
    THEN /\ apc' = "done"
         /\ aresult' = Thrown(DevOpsUnexpectedStateError("unexpected state", resp))
  ELSE IF now' - poll.start > poll.timeout
    THEN /\ apc' = "done"
         /\ aresult' = Thrown(DevOpsAPITimeout(DbUrl(poll.id), poll.timeout))
  ELSE apc' = "sleep" /\ UNCHANGED aresult

\* A status fetch resolves with the record of the database.
FetchResolved(d) ==
  /\ apc = "fetch"
  /\ now' = now + d
  /\ fetched' = Append(fetched, DbRecord(poll.id, dbStatus))
  /\ AwaitStatusAfterFetch(FetchResponse(poll.id, dbStatus))
  /\ UNCHANGED <<aop, trig, poll, fetchCount, sleeps, dbStatus, h2vars, cvars, pvars>>

\* A status fetch rejects: the rejection propagates out of awaitStatus.
FetchRejected(d) ==
  /\ apc = "fetch"
  /\ now' = now + d
  /\ apc' = "done"
  /\ aresult' = Thrown(RequestRejection)
  /\ UNCHANGED <<aop, trig, poll, fetched, fetchCount, sleeps, dbStatus, h2vars, cvars, pvars>>

\* The poll-interval sleep ends and the next status fetch is issued.
SleepDoneResetsBudget ==
  /\ apc = "sleep"
  /\ now + poll.interval <= ClockCap
  /\ now' = now + poll.interval
  /\ sleeps' = sleeps + 1
  /\ fetchCount' = fetchCount + 1
  /\ apc' = "fetch"
  /\ poll' = [poll EXCEPT !.start = now']
  /\ UNCHANGED <<aop, trig, fetched, aresult, dbStatus, h2vars, cvars, pvars>>

SleepDone ==
  /\ apc = "sleep"
  /\ now + poll.interval <= ClockCap
  /\ now' = now + poll.interval
  /\ sleeps' = sleeps + 1
  /\ fetchCount' = fetchCount + 1
  /\ apc' = "fetch"
  /\ UNCHANGED <<aop, trig, poll, fetched, aresult, dbStatus, h2vars, cvars, pvars>>

(***************************************************************************)
(* AstraAdmin.createDatabase / dropDatabase and AstraDbAdmin               *)
(* createNamespace / dropNamespace / drop.                                 *)
(***************************************************************************)
\* The operation is called: its triggering request is sent.
StartOp(name, options) ==
  /\ apc = "init"
  /\ aop' = [name |-> name, options |-> options]
  /\ trig' = "pending"
  /\ apc' = "trigger"
  /\ UNCHANGED <<poll, fetched, fetchCount, sleeps, now, aresult, dbStatus, h2vars, cvars, pvars>>

\* The triggering request rejects: the await throws out of the operation.
TriggerRejected(d) ==
  /\ apc = "trigger"
  /\ trig' = "rejected"
  /\ now' = now + d
  /\ apc' = "done"
  /\ aresult' = Thrown(RequestRejection)
  /\ UNCHANGED <<aop, poll, fetched, fetchCount, sleeps, dbStatus, h2vars, cvars, pvars>>

\* createDatabase after its POST resolved: awaitStatus(..., options, 10000).
CreateDatabaseIgnoresOptions(d) ==
  /\ apc = "trigger"
  /\ aop.name = "createDatabase"
  /\ trig' = "resolved"
  /\ now' = now + d
  /\ AwaitStatusCall(DbId, CreateDatabaseTarget, CreateDatabaseLegal,
                     [aop.options EXCEPT !.blocking = TRUE], CreateDatabasePollInterval)
  /\ UNCHANGED <<aop, fetched, sleeps, dbStatus, h2vars, cvars, pvars>>

CreateDatabaseResolved(d) ==
  /\ apc = "trigger"
  /\ aop.name = "createDatabase"
  /\ trig' = "resolved"
  /\ now' = now + d
  /\ AwaitStatusCall(DbId, CreateDatabaseTarget, CreateDatabaseLegal,
                     aop.options, CreateDatabasePollInterval)
  /\ UNCHANGED <<aop, fetched, sleeps, dbStatus, h2vars, cvars, pvars>>

\* dropDatabase after its POST resolved: awaitStatus(..., options, 10000).
DropDatabaseResolved(d) ==
  /\ apc = "trigger"
  /\ aop.name = "dropDatabase"
  /\ trig' = "resolved"
  /\ now' = now + d
  /\ AwaitStatusCall(DbId, DropDatabaseTarget, DropDatabaseLegal,
                     aop.options, DropDatabasePollInterval)
  /\ UNCHANGED <<aop, fetched, sleeps, dbStatus, h2vars, cvars, pvars>>

\* AstraDbAdmin.createNamespace / dropNamespace / drop after their request
\* resolved: the method returns.
DbAdminOpResolved(d) ==
  /\ apc = "trigger"
  /\ aop.name \in {"createNamespace", "dropNamespace", "drop"}
  /\ trig' = "resolved"
  /\ now' = now + d
  /\ apc' = "done"
  /\ aresult' = Returned
  /\ UNCHANGED <<aop, poll, fetched, fetchCount, sleeps, dbStatus, h2vars, cvars, pvars>>

\* The server moves the database to another status.
ServerStep(st) ==
  /\ apc # "done"
  /\ st # dbStatus
  /\ dbStatus' = st
  /\ UNCHANGED <<apc, aop, trig, poll, fetched, fetchCount, sleeps, now, aresult, h2vars, cvars, pvars>>

AdminNext ==
  \/ \E n \in OpNames, o \in BlockingOptions : StartOp(n, o)
  \/ \E d \in RequestDurations : TriggerRejected(d)
  \/ \E d \in RequestDurations : CreateDatabaseResolved(d)
  \/ \E d \in RequestDurations : DropDatabaseResolved(d)
  \/ \E d \in RequestDurations : DbAdminOpResolved(d)
  \/ \E d \in RequestDurations : FetchResolved(d)
  \/ \E d \in RequestDurations : FetchRejected(d)
  \/ SleepDone
  \/ \E st \in Statuses : ServerStep(st)

(***************************************************************************)
(* The errors of the DevOps API (devops/errors.ts).  A response is          *)
(* [status, data]; data is None or Some([errors |-> e]) and e is None or    *)
(* Some(list); an element of the list is [ID, message], each None when the  *)
(* element has no such field.                                               *)
(***************************************************************************)
FallbackMessage == "Something went wrong"

\* resp.data?.errors || []
ErrorsOf(resp) ==
  IF resp.data.some /\ resp.data.val.errors.some THEN resp.data.val.errors.val ELSE <<>>

\* extractErrorDescriptors(resp): errors.map(e => ({ id: e.ID, message: e.message }))
ExtractErrorDescriptorsWithMessage(resp) ==
  LET errors == SelectSeq(ErrorsOf(resp), LAMBDA e : e.message.some)
  IN [i \in 1..Len(errors) |-> [id |-> errors[i].ID, message |-> errors[i].message]]

ExtractErrorDescriptors(resp) ==
  LET errors == ErrorsOf(resp)
  IN [i \in 1..Len(errors) |-> [id |-> errors[i].ID, message |-> errors[i].message]]

\* A value that is a non-empty string.
Truthy(o) == o.some /\ o.val # ""

\* Array.prototype.find(e => e.message): the first element with a truthy
\* message, None when there is none.
RECURSIVE FindWithMessage(_)
FindWithMessage(errors) ==
  IF errors = <<>> THEN None
  ELSE IF Truthy(errors[1].message) THEN Some(errors[1])
  ELSE FindWithMessage(Tail(errors))

\* new DevOpsAPIResponseError(resp)
DevOpsAPIResponseErrorFirstOnly(resp) ==
  LET errors == ErrorsOf(resp)
  IN [name |-> "DevOpsAPIResponseError",
      message |-> IF errors # <<>> /\ Truthy(errors[1].message)
                    THEN errors[1].message.val ELSE FallbackMessage,
      errors |-> ExtractErrorDescriptors(resp),
      status |-> resp.status]

DevOpsAPIResponseError(resp) ==
  LET found == IF resp.data.some /\ resp.data.val.errors.some
                 THEN FindWithMessage(resp.data.val.errors.val)
                 ELSE None
  IN [name |-> "DevOpsAPIResponseError",
      message |-> IF found.some THEN found.val.message.val ELSE FallbackMessage,
      errors |-> ExtractErrorDescriptors(resp),
      status |-> resp.status]

(***************************************************************************)
(* The command codec (http-client.ts, serializeCommand and handleValues).   *)
(* A value is a record tagged by t:                                         *)
(*   "null"; "bool" with b; "num" with the numeral n, or with i when it is  *)
(*   a time in milliseconds; "str" with the text s, or iso when it is the   *)
(*   ISO form of the time iso, dec when it is the decimal text of the time  *)
(*   dec, b64 when it is the base64 form of the bytes b64, chars when it is *)
(*   spelled character by character; "bigint" with                          *)
(*   the numeral n; "ObjectId" with hex; "Decimal128" with the numeral d;   *)
(*   "Binary" with subType and bytes; "Date" with ms; "doc" with the        *)
(*   fields [k, v] in order; "arr" with items.                              *)
(***************************************************************************)
JNull == [t |-> "null"]
JBool(b) == [t |-> "bool", b |-> b]
JNum(n) == [t |-> "num", n |-> n]
JTime(ms) == [t |-> "num", i |-> ms]
JStr(x) == [t |-> "str", s |-> x]
JDoc(fields) == [t |-> "doc", fields |-> fields]
JArr(items) == [t |-> "arr", items |-> items]
JField(k, v) == [k |-> k, v |-> v]
NaN == JNum("NaN")

\* The numerals a double does not hold, and the numeral of the nearest double.
Rounded ==
  [n \in {"9007199254740993", "1.00000000000000000001"} |->
     IF n = "9007199254740993" THEN "9007199254740992" ELSE "1"]

\* Number(x) for a bigint or for the text of a numeral.
ToNumber(numeral) ==
  JNum(IF numeral \in DOMAIN Rounded THEN Rounded[numeral] ELSE numeral)

\* Date.prototype.toISOString and the Date made of its result.
ToISOString(ms) == [t |-> "str", iso |-> ms]

\* Number.prototype.toString: the decimal text of a time.
ToDecimalText(ms) == [t |-> "str", dec |-> ms]

\* Buffer.toString('base64') and Buffer.from(text, 'base64').
ToBase64(bytes) == [t |-> "str", b64 |-> bytes]
FromBase64(text) == text.b64

\* The truth value of a value in a condition.
ToBoolean(v) ==
  CASE v.t = "null" -> FALSE
    [] v.t = "bool" -> v.b
    [] v.t = "num" -> IF "i" \in DOMAIN v THEN v.i # 0 ELSE v.n \notin {"0", "NaN"}
    [] v.t = "str" -> IF "s" \in DOMAIN v THEN v.s # ""
                      ELSE IF "chars" \in DOMAIN v THEN v.chars # <<>>
                      ELSE IF "b64" \in DOMAIN v THEN v.b64 # <<>>
                      ELSE TRUE
    [] v.t = "bigint" -> v.n # "0"
    [] OTHER -> TRUE

\* value[key] of a document: None when it has no such key.
Get(doc, key) ==
  LET at == {i \in 1..Len(doc.fields) : doc.fields[i].k = key}
  IN IF at = {} THEN None ELSE Some(doc.fields[CHOOSE i \in at : TRUE].v)

\* The document with value[key] = x assigned.
Put(doc, key, x) ==
  JDoc([i \in 1..Len(doc.fields) |->
          IF doc.fields[i].k = key THEN JField(key, x) ELSE doc.fields[i]])

\* The serialization of the bson library in relaxed mode, the first stage of
\* EJSON.stringify: the values of the bson types become documents of one
\* reserved key, every document and array is built anew, the rest is kept.
\* A Date of the years 1970 to 9999 becomes { $date: <ISO text> }, any other
\* Date { $date: { $numberLong: <milliseconds> } }; the times of the model
\* are all before the year 10000.
RECURSIVE EJSONSerialize(_)
EJSONSerialize(v) ==
  CASE v.t = "ObjectId" -> JDoc(<<JField("$oid", JStr(v.hex))>>)
    [] v.t = "Decimal128" -> JDoc(<<JField("$numberDecimal", JStr(v.d))>>)
    [] v.t = "Binary" ->
         JDoc(<<JField("$binary",
                       JDoc(<<JField("base64", ToBase64(v.bytes)),
                              JField("subType", JStr(v.subType))>>))>>)
    [] v.t = "Date" ->
         IF v.ms > -1
           THEN JDoc(<<JField("$date", ToISOString(v.ms))>>)
           ELSE JDoc(<<JField("$date", JDoc(<<JField("$numberLong", ToDecimalText(v.ms))>>))>>)
    [] v.t = "doc" ->
         JDoc([i \in 1..Len(v.fields) |->
                 JField(v.fields[i].k, EJSONSerialize(v.fields[i].v))])
    [] v.t = "arr" -> JArr([i \in 1..Len(v.items) |-> EJSONSerialize(v.items[i])])
    [] OTHER -> v

\* Buffer.toString('hex'): two lowercase digits for each byte.
HexDigits == <<"0", "1", "2", "3", "4", "5", "6", "7", "8", "9",
               "a", "b", "c", "d", "e", "f">>
ToHex(bytes) ==
  [k \in 1..(2 * Len(bytes)) |->
     LET byte == bytes[(k + 1) \div 2]
     IN HexDigits[(IF k % 2 = 1 THEN byte \div 16 ELSE byte % 16) + 1]]

\* hex.replace(/(.{8})(.{4})(.{4})(.{4})(.{12})/, "$1-$2-$3-$4-$5"): the
\* first 32 characters are regrouped, a shorter text is left as it is.
Hyphenate(hex) ==
  IF Len(hex) < 32 THEN hex
  ELSE SubSeq(hex, 1, 8) \o <<"-">> \o SubSeq(hex, 9, 12) \o <<"-">>
         \o SubSeq(hex, 13, 16) \o <<"-">> \o SubSeq(hex, 17, 20) \o <<"-">>
         \o SubSeq(hex, 21, Len(hex))

\* new Date(x).valueOf() for the x found under $date.
DateValueOf(x) ==
  IF x.t = "str" /\ "iso" \in DOMAIN x THEN JTime(x.iso)
  ELSE IF x.t = "num" THEN x
  ELSE NaN

\* handleValues(value): ret is the value returned, obj the object value
\* after the call (the $date branch assigns to it).
HandleValuesKeepsOid(v) ==
  IF v.t = "bigint" /\ ToBoolean(v) THEN [ret |-> ToNumber(v.n), obj |-> v]
  ELSE IF v.t = "doc" THEN
    LET oid == Get(v, "$oid")
        dec == Get(v, "$numberDecimal")
        bin == Get(v, "$binary")
        date == Get(v, "$date")
        sub == IF bin.some /\ bin.val.t = "doc" THEN Get(bin.val, "subType") ELSE None
    IN IF dec.some /\ ToBoolean(dec.val)
         THEN [ret |-> ToNumber(dec.val.s), obj |-> v]
       ELSE IF sub \in {Some(JStr("03")), Some(JStr("04"))}
         THEN [ret |-> [t |-> "str",
                        chars |-> Hyphenate(ToHex(FromBase64(Get(bin.val, "base64").val)))],
               obj |-> v]
       ELSE IF date.some /\ ToBoolean(date.val)
         THEN LET assigned == Put(v, "$date", DateValueOf(date.val))
              IN [ret |-> assigned, obj |-> assigned]
       ELSE [ret |-> v, obj |-> v]
  ELSE [ret |-> v, obj |-> v]

HandleValues(v) ==
  IF v.t = "bigint" /\ ToBoolean(v) THEN [ret |-> ToNumber(v.n), obj |-> v]
  ELSE IF v.t = "doc" THEN
    LET oid == Get(v, "$oid")
        dec == Get(v, "$numberDecimal")
        bin == Get(v, "$binary")
        date == Get(v, "$date")
        sub == IF bin.some /\ bin.val.t = "doc" THEN Get(bin.val, "subType") ELSE None
    IN IF oid.some /\ ToBoolean(oid.val) THEN [ret |-> oid.val, obj |-> v]
       ELSE IF dec.some /\ ToBoolean(dec.val)
         THEN [ret |-> ToNumber(dec.val.s), obj |-> v]
       ELSE IF sub \in {Some(JStr("03")), Some(JStr("04"))}
         THEN [ret |-> [t |-> "str",
                        chars |-> Hyphenate(ToHex(FromBase64(Get(bin.val, "base64").val)))],
               obj |-> v]
       ELSE IF date.some /\ ToBoolean(date.val)
         THEN LET assigned == Put(v, "$date", DateValueOf(date.val))
              IN [ret |-> assigned, obj |-> assigned]
       ELSE [ret |-> v, obj |-> v]
  ELSE [ret |-> v, obj |-> v]

\* The second stage of EJSON.stringify, JSON.stringify with handleValues as
\* its replacer: the replacer is applied to a value, then to the members of
\* what it returned.  out is the value written, obj the value after the
\* assignments of the replacer.
RECURSIVE Replace(_)
Replace(v) ==
  LET h == HandleValues(v)
  IN IF h.ret.t = "doc" THEN
       LET rs == [i \in 1..Len(h.ret.fields) |-> Replace(h.ret.fields[i].v)]
       IN [out |-> JDoc([i \in 1..Len(rs) |-> JField(h.ret.fields[i].k, rs[i].out)]),
           obj |-> JDoc([i \in 1..Len(rs) |-> JField(h.ret.fields[i].k, rs[i].obj)])]
     ELSE IF h.ret.t = "arr" THEN
       LET rs == [i \in 1..Len(h.ret.items) |-> Replace(h.ret.items[i])]
       IN [out |-> JArr([i \in 1..Len(rs) |-> rs[i].out]),
           obj |-> JArr([i \in 1..Len(rs) |-> rs[i].obj])]
     ELSE [out |-> h.ret, obj |-> h.obj]

\* The text JSON.stringify writes, token by token: a punctuation token is
\* [p |-> mark], the token of a string, a number, a boolean or null is the
\* value itself; NaN is written null.  With an indent the members of a
\* container that is not empty are set apart by white space.
Mark(m) == [p |-> m]
White(pretty) == IF pretty THEN <<Mark("ws")>> ELSE <<>>

RECURSIVE Stringify(_, _)
RECURSIVE StringifyMembers(_, _, _)
StringifyMembers(v, i, pretty) ==
  LET n == IF v.t = "doc" THEN Len(v.fields) ELSE Len(v.items)
      member == IF v.t = "doc"
                  THEN <<JStr(v.fields[i].k), Mark(":")>> \o White(pretty)
                         \o Stringify(v.fields[i].v, pretty)
                  ELSE Stringify(v.items[i], pretty)
  IN IF i > n THEN <<>>
     ELSE White(pretty) \o member
            \o (IF i < n THEN <<Mark(",")>> ELSE White(pretty))
            \o StringifyMembers(v, i + 1, pretty)

Stringify(v, pretty) ==
  CASE v.t = "doc" -> <<Mark("{")>> \o StringifyMembers(v, 1, pretty) \o <<Mark("}")>>
    [] v.t = "arr" -> <<Mark("[")>> \o StringifyMembers(v, 1, pretty) \o <<Mark("]")>>
    [] v = NaN -> <<JNull>>
    [] OTHER -> <<v>>

\* serializeCommand(data, pretty): text is the text returned, data the
\* caller's value after the call.  The replacer assigns to the documents
\* EJSON.stringify built, never to the value of the caller.
SerializeCommandInPlace(data, pretty) ==
  LET r == Replace(EJSONSerialize(data))
  IN [text |-> Stringify(r.out, pretty), data |-> r.obj]

SerializeCommand(data, pretty) ==
  LET r == Replace(EJSONSerialize(data))
  IN [text |-> Stringify(r.out, pretty), data |-> data]

\* JSON.parse(text), by recursive descent over the tokens that are not white
\* space: val is the value read, rest the tokens after it.
RECURSIVE ParseValue(_)
RECURSIVE ParseFields(_, _)
RECURSIVE ParseItems(_, _)
ParseFields(ts, acc) ==
  IF ts[1] = Mark("}") THEN [val |-> JDoc(acc), rest |-> Tail(ts)]
  ELSE IF ts[1] = Mark(",") THEN ParseFields(Tail(ts), acc)
  ELSE LET r == ParseValue(SubSeq(ts, 3, Len(ts)))
       IN ParseFields(r.rest, Append(acc, JField(ts[1].s, r.val)))

ParseItems(ts, acc) ==
  IF ts[1] = Mark("]") THEN [val |-> JArr(acc), rest |-> Tail(ts)]
  ELSE IF ts[1] = Mark(",") THEN ParseItems(Tail(ts), acc)
  ELSE LET r == ParseValue(ts)
       IN ParseItems(r.rest, Append(acc, r.val))

ParseValue(ts) ==
  IF ts[1] = Mark("{") THEN ParseFields(Tail(ts), <<>>)
  ELSE IF ts[1] = Mark("[") THEN ParseItems(Tail(ts), <<>>)
  ELSE [val |-> ts[1], rest |-> Tail(ts)]

JSONParseText(text) == ParseValue(SelectSeq(text, LAMBDA tok : tok # Mark("ws"))).val

(***************************************************************************)
(* The calls of the functions that keep no state.  A behaviour examines one *)
(* call: it records the function, its input and its result in fcall.        *)
(***************************************************************************)
\* The options a constructor is called with.
CallerOptions ==
  LET app == [name |-> "my-app", version |-> "2.0"]
      lib == [name |-> "my-lib", version |-> ""]
  IN {None, Some([one |-> app]), Some([one |-> lib]), Some([many |-> <<>>]),
      Some([many |-> <<app, lib>>]), Some([many |-> <<lib, app>>])}

ConstructorOptions ==
  {[RootOptions EXCEPT !.baseUrl = b, !.applicationToken = t, !.useHttp2 = u,
                       !.caller = c, !.userAgent = a] :
     b \in {<<>>, DataApiEndpoint}, t \in {"", RootToken},
     u \in {None, Some(TRUE), Some(FALSE)}, c \in CallerOptions,
     a \in {None, Some(<<"custom-agent">>)}}

\* new HttpClient(options)
ConstructCall(window, options) ==
  /\ fcall.fn = "none"
  /\ fcall' = [fn |-> "constructor",
               in |-> [window |-> window, options |-> options],
               out |-> NewHttpClient(window, "HttpClient", options, <<>>, <<>>)]
  /\ UNCHANGED <<h2vars, cvars, avars>>

\* The request infos _request is called with.
RequestInfos ==
  {[url |-> RootClient.baseUrl, data |-> "cmd", timeout |-> t, method |-> m,
    params |-> q, timeoutError |-> None] :
     t \in {0, 30, 40}, m \in {None, Some("POST")},
     q \in {None, Some(<<>>), Some(<<"page", "2">>)}}

\* HttpClient._request(info), up to the call of the strategy.
RequestInfoCall(info) ==
  /\ fcall.fn = "none"
  /\ fcall' = [fn |-> "_request", in |-> info, out |-> StrategyInfo(RootClient, info)]
  /\ UNCHANGED <<h2vars, cvars, avars>>

\* The elements of an errors list, and the lists of at most n of them.
ErrorElements ==
  {[ID |-> i, message |-> m] :
     i \in {None, Some(1), Some(2)}, m \in {None, Some(""), Some("bad"), Some("worse")}}

RECURSIVE ErrorLists(_)
ErrorLists(n) ==
  IF n = 0 THEN {<<>>}
  ELSE LET shorter == ErrorLists(n - 1)
       IN shorter \cup {Append(l, e) : l \in {x \in shorter : Len(x) = n - 1},
                                        e \in ErrorElements}

\* The responses of the DevOps API an error is made of.
ErrorResponses ==
  {[status |-> st, data |-> d] :
     st \in {400, 500},
     d \in {None, Some([errors |-> None])}
           \cup {Some([errors |-> Some(l)]) : l \in ErrorLists(MaxErrors)}}

\* new DevOpsAPIResponseError(resp)
ResponseErrorCall(resp) ==
  /\ fcall.fn = "none"
  /\ fcall' = [fn |-> "DevOpsAPIResponseError", in |-> resp,
               out |-> DevOpsAPIResponseError(resp)]
  /\ UNCHANGED <<h2vars, cvars, avars>>

\* The values serializeCommand is called with: the values without a
\* container, and those in at most n documents and arrays.
ObjectIdHex == "507f1f77bcf86cd799439011"
UUIDBytes == [i \in 1..16 |-> (i * 17) % 256]
OtherBytes == [i \in 1..16 |-> 255 - 13 * i]
Day == 86400000

PlainLeaves ==
  {JNull, JBool(TRUE), JBool(FALSE), JNum("7"), JNum("0"),
   JStr("a"), JStr(""), JStr(ObjectIdHex)}

TypedLeaves ==
  {[t |-> "bigint", n |-> "5"], [t |-> "bigint", n |-> "9007199254740993"],
   [t |-> "ObjectId", hex |-> ObjectIdHex],
   [t |-> "Decimal128", d |-> "1.5"], [t |-> "Decimal128", d |-> "1.00000000000000000001"],
   [t |-> "Date", ms |-> 0], [t |-> "Date", ms |-> Day], [t |-> "Date", ms |-> 0 - 1000]}
  \cup {[t |-> "Binary", subType |-> st, bytes |-> UUIDBytes] : st \in {"00", "03", "04"}}
  \cup {[t |-> "Binary", subType |-> "04", bytes |-> OtherBytes],
        [t |-> "Binary", subType |-> "04", bytes |-> <<10, 11>>]}

\* Documents of the caller that have a key the codec reserves.
ReservedKeyDocs ==
  {JDoc(<<JField("$date", ToISOString(Day))>>),
   JDoc(<<JField("$oid", JStr("a"))>>)}

RECURSIVE CodecValues(_)
CodecValues(n) ==
  IF n = 0 THEN PlainLeaves \cup TypedLeaves
  ELSE LET inner == CodecValues(n - 1)
       IN inner \cup ReservedKeyDocs \cup {JDoc(<<>>), JArr(<<>>)}
            \cup {JDoc(<<JField("f", v), JField("g", JNull)>>) : v \in inner}
            \cup {JArr(<<v, JNum("7")>>) : v \in inner}

\* serializeCommand(data, pretty), and JSON.parse of the text it returned;
\* outs are the texts returned for this value so far.
SerializeCall(v, pretty) ==
  /\ fcall.fn = "none"
  /\ LET r == SerializeCommand(v, pretty)
     IN fcall' = [fn |-> "serializeCommand", in |-> v, pretty |-> pretty,
                  data |-> r.data, outs |-> <<r.text>>,
                  decoded |-> JSONParseText(r.text)]
  /\ UNCHANGED <<h2vars, cvars, avars>>

\* serializeCommand called once more with the value of the last call.
SerializeAgain ==
  /\ fcall.fn = "serializeCommand"
  /\ Len(fcall.outs) < 2
  /\ LET r == SerializeCommand(fcall.data, fcall.pretty)
     IN fcall' = [fcall EXCEPT !.data = r.data,
                               !.outs = Append(@, r.text),
                               !.decoded = JSONParseText(r.text)]
  /\ UNCHANGED <<h2vars, cvars, avars>>

PureNext ==
  \/ \E w \in BOOLEAN, o \in ConstructorOptions : ConstructCall(w, o)
  \/ \E i \in RequestInfos : RequestInfoCall(i)
  \/ \E resp \in ErrorResponses : ResponseErrorCall(resp)
  \/ \E v \in CodecValues(MaxDepth), pretty \in BOOLEAN : SerializeCall(v, pretty)
  \/ SerializeAgain

\* No pure function has been called yet.
PInit == fcall = [fn |-> "none"]

Init == H2Init /\ CInit /\ AInit /\ PInit

Spec == Init /\ [][Next]_vars

SpecSession == Init /\ [][NextSession]_vars

SpecClient == Init /\ [][NextClient]_vars

SpecAdmin == Init /\ [][AdminNext]_vars

SpecPure == Init /\ [][PureNext]_vars

\* A timer that is armed and not cleared runs out: the event loop calls the
\* callback of setTimeout.  Nothing obliges the peer to send an event.
TimerFairness == \A r \in Reqs : WF_vars(TimerFire(r))

SpecTimers == Init /\ [][Next]_vars /\ TimerFairness

\* The requests of the DevOps client settle and the sleep timers run out.
AdminFairness ==
  /\ WF_vars(\E d \in RequestDurations : FetchResolved(d))
  /\ WF_vars(\E d \in RequestDurations : FetchRejected(d))
  /\ WF_vars(SleepDone)

SpecAdminFair == Init /\ [][AdminNext]_vars /\ AdminFairness

(***************************************************************************)
(* Properties of the multiplexed strategy (checked under Spec).            *)
(***************************************************************************)

\* C1: a request whose timer fired (the timer can only fire before any
\* 'response', 'error' or 'end' of its stream, which all clear it) is
\* rejected with a DataAPITimeout and its promise changed state exactly
\* once, whatever stream events arrive afterwards.
C1_TimeoutRejectsOnce ==
  \A r \in Reqs :
    reqs[r].timer = "fired" =>
      /\ reqs[r].promise.state = "rejected"
      /\ reqs[r].promise.value.name = "DataAPITimeout"
      /\ reqs[r].promise.settles = 1

\* A timed-out request whose complete, parseable response arrived later.
C1_Witness ==
  \E r \in Reqs :
    /\ reqs[r].timer = "fired"
    /\ reqs[r].phase = "ended"
    /\ IsJSON(reqs[r].responseBody)

\* C2: once closed is true it stays true, and from then on no step opens a
\* session, replaces the session handle or sends a stream; a request() called
\* then ends rejected with the closed-client error and without a stream.
C2_CloseTerminal ==
  [][closed =>
       /\ closed'
       /\ session' = session
       /\ Len(sessions') = Len(sessions)
       /\ \A r \in Reqs :
            (reqs[r].phase = "idle" /\ reqs'[r].phase # "idle") =>
              /\ reqs'[r].phase = "nostream"
              /\ reqs'[r].sess = 0
              /\ reqs'[r].timer = "none"
              /\ reqs'[r].promise.state = "rejected"
              /\ reqs'[r].promise.value = PlainError(ClosedMessage)]_vars

\* A request was made after close() and rejected at once.
C2_Witness ==
  /\ closed
  /\ \E r \in Reqs : reqs[r].phase = "nostream" /\ reqs[r].promise.state = "rejected"

\* C3: a request() on a strategy that is not closed but whose session the peer
\* closed opens a new session, makes it the handle and sends its stream on
\* it; every resolved request has a value of the shape {status, data}.
C3_SessionRevival ==
  [][/\ \A r \in Reqs :
          (reqs[r].phase = "idle" /\ reqs'[r].phase = "open"
             /\ sessions[session].closed) =>
            /\ Len(sessions') = Len(sessions) + 1
            /\ session' = Len(sessions')
            /\ ~sessions'[session'].closed
            /\ reqs'[r].sess = session'
     /\ \A r \in Reqs :
          reqs'[r].promise.state = "resolved" =>
            DOMAIN reqs'[r].promise.value = {"status", "data"}]_vars

\* One request resolved on the first session and one on the revived session.
C3_Witness ==
  \E r1, r2 \in Reqs :
    /\ reqs[r1].sess = 1 /\ reqs[r1].promise.state = "resolved"
    /\ reqs[r2].sess = 2 /\ reqs[r2].promise.state = "resolved"
    /\ sessions[1].closed
    /\ ~closed

\* C12: a step that replaces the session handle changes nothing of a
\* request sent before it; a request stays on the session it was sent on;
\* and the promise of a request changes only in a step of its own timer
\* (armed to fired), of its own stream ('end' or 'error'), or of its own
\* call when the strategy is closed.
C12_RevivalKeepsInFlight ==
  [][\A q \in Reqs :
       /\ (session' # session /\ reqs[q].phase # "idle") => reqs'[q] = reqs[q]
       /\ reqs[q].phase # "idle" => reqs'[q].sess = reqs[q].sess
       /\ reqs'[q].promise # reqs[q].promise =>
            \/ reqs[q].phase = "idle" /\ reqs'[q].phase = "nostream"
            \/ reqs[q].timer = "armed" /\ reqs'[q].timer = "fired"
            \/ /\ reqs[q].phase \in {"open", "responded"}
               /\ reqs'[q].phase \in {"ended", "errored"}]_vars

\* A request still pending on the session the peer closed, after a later
\* request was sent on the session that replaced it.
C12_Witness ==
  \E q, r \in Reqs :
    /\ reqs[q].sess = 1 /\ sessions[1].closed
    /\ reqs[q].phase \in {"open", "responded"}
    /\ reqs[q].promise.state = "pending"
    /\ reqs[r].sess = 2 /\ session = 2

\* C16: a request whose timer fired is rejected with a DataAPITimeout whose
\* command is the body of that request and whose timeout is the timeout that
\* request was made with; no other request gets that error.
C16_TimeoutErrorFields ==
  \A r \in Reqs :
    /\ reqs[r].timer = "fired" =>
         /\ reqs[r].promise.value.name = "DataAPITimeout"
         /\ reqs[r].promise.value.command = BodyOf(r)
         /\ reqs[r].promise.value.timeout = TimeoutOf(r)
    /\ (reqs[r].promise.state = "rejected"
          /\ reqs[r].promise.value.name = "DataAPITimeout") => reqs[r].timer = "fired"

\* Two requests with different bodies and timeouts both timed out.
C16_Witness ==
  /\ reqs[1].timer = "fired" /\ reqs[2].timer = "fired"
  /\ reqs[1].promise.value # reqs[2].promise.value

\* C17: once the timer of a request has fired, no handler of its stream runs:
\* its phase, status and accumulated body stay as they were.
C17_NoHandlerAfterTimeout ==
  [][\A r \in Reqs :
       reqs[r].timer = "fired" =>
         /\ reqs'[r].phase = reqs[r].phase
         /\ reqs'[r].status = reqs[r].status
         /\ reqs'[r].responseBody = reqs[r].responseBody]_vars

\* C18: a promise becomes resolved only in the step of the 'end' of its
\* stream; the status it resolves with is the one the 'response' event set
\* (the ':status' of the peer), its data is the parse of the body accumulated
\* until then; each 'data' event appends its chunk to the body; a resolved
\* promise does not change again.
C18_ResponseAssembly ==
  [][\A r \in Reqs :
       /\ (reqs'[r].promise.state = "resolved" /\ reqs[r].promise.state # "resolved") =>
            /\ reqs[r].phase = "responded"
            /\ reqs'[r].phase = "ended"
            /\ reqs'[r].promise.value.status = reqs[r].status
            /\ reqs'[r].promise.value.status = StatusOf(r)
            /\ IsJSON(reqs[r].responseBody)
            /\ reqs'[r].promise.value.data = JSONParse(reqs[r].responseBody)
            /\ reqs[r].responseBody = <<"1">> => reqs'[r].promise.value.data = 1
            /\ reqs[r].responseBody = <<"1", "1">> => reqs'[r].promise.value.data = 11
       /\ reqs'[r].responseBody # reqs[r].responseBody =>
            /\ Len(reqs'[r].responseBody) = Len(reqs[r].responseBody) + 1
            /\ SubSeq(reqs'[r].responseBody, 1, Len(reqs[r].responseBody))
                 = reqs[r].responseBody
       /\ reqs[r].promise.state = "resolved" => reqs'[r].promise = reqs[r].promise]_vars

\* A request resolved with the status of the peer and a body of two chunks.
C18_Witness ==
  /\ reqs[1].promise.state = "resolved"
  /\ reqs[1].promise.value = [status |-> 200, data |-> 11]
  /\ reqs[1].responseBody = <<"1", "1">>

\* C19: a request whose stream ended with a body that is not JSON, the empty
\* body included, is rejected and never resolved; unless its timer had
\* already rejected it, the error is the parse error with the raw body.
C19_NonJSONRejects ==
  \A r \in Reqs :
    (reqs[r].phase = "ended" /\ ~IsJSON(reqs[r].responseBody)) =>
      /\ reqs[r].promise.state = "rejected"
      /\ reqs[r].timer # "fired" =>
           /\ reqs[r].promise.value.name = "Error"
           /\ reqs[r].promise.value.message = ParseMessage
           /\ reqs[r].promise.value.raw = reqs[r].responseBody

\* One request rejected on an empty body, one on a body that is cut short.
C19_Witness ==
  \E q, r \in Reqs :
    /\ reqs[q].phase = "ended" /\ reqs[q].promise.value = [name |-> "Error",
                                   message |-> ParseMessage, raw |-> <<>>]
    /\ reqs[r].phase = "ended" /\ reqs[r].promise.value = [name |-> "Error",
                                   message |-> ParseMessage, raw |-> <<"[", "1">>]

(***************************************************************************)
(* Properties of the session errors (checked under SpecSession).           *)
(***************************************************************************)
\* C21: a request whose stream ended with a JSON body, its timer not fired, is
\* resolved whatever the status the 'response' carried: the resolution holds
\* that status and the parsed body, so that a 500 is for the caller to
\* interpret; only a timeout, a stream error, an unparseable body and the
\* closed guard reject.
C21_ErrorStatusResolves ==
  \A r \in Reqs :
    /\ (reqs[r].phase = "ended" /\ reqs[r].timer # "fired" /\ IsJSON(reqs[r].responseBody))
         => /\ reqs[r].promise.state = "resolved"
            /\ reqs[r].promise.value.status = reqs[r].status
            /\ reqs[r].promise.value.data = JSONParse(reqs[r].responseBody)
    /\ reqs[r].promise.state = "rejected"
         => \/ reqs[r].timer = "fired"
            \/ reqs[r].phase \in {"errored", "nostream"}
            \/ reqs[r].phase = "ended" /\ ~IsJSON(reqs[r].responseBody)

C21_Witness ==
  \E r \in Reqs :
    /\ reqs[r].phase = "ended"
    /\ reqs[r].status = 500
    /\ reqs[r].promise.state = "resolved"
    /\ reqs[r].promise.value.status = 500

\* C22: one request makes one call of the strategy's request() and opens at
\* most one stream: a call is made and a stream is opened only by the step that
\* takes the request out of "idle", so that nothing is sent again after a
\* timeout, a stream error or an error status.
C22_NoRetry ==
  [][\A r \in Reqs :
       /\ reqs'[r].calls <= 1
       /\ reqs'[r].streams <= reqs'[r].calls
       /\ (reqs'[r].calls # reqs[r].calls \/ reqs'[r].streams # reqs[r].streams)
            => reqs[r].phase = "idle"
       /\ reqs'[r].phase # "idle" => reqs'[r].calls = 1]_vars

C22_Witness ==
  /\ \E r \in Reqs : reqs[r].timer = "fired" /\ reqs[r].streams = 1
  /\ \E r \in Reqs : reqs[r].phase = "errored" /\ reqs[r].streams = 1
  /\ \A r \in Reqs : reqs[r].calls = 1

\* C32 (checked under SpecTimers): a request whose stream was sent eventually
\* has a settled promise, whatever the peer sends or does not send.
C32_EventuallySettles ==
  \A r \in Reqs : (reqs[r].phase = "open") ~> (reqs[r].promise.state # "pending")

\* C33: the strategy has one session handle, which is a session it opened; a
\* session is opened only by a step that finds the current one closed, and is
\* then the handle; at most one session is open; a session becomes closed by
\* close() or by the peer, never by a step of a request or of a handler, and
\* a closed session stays closed.
C33_OneSession ==
  [][/\ session' \in 1..Len(sessions')
     /\ Len(sessions') # Len(sessions) =>
          /\ sessions[session].closed
          /\ ~closed
          /\ Len(sessions') = Len(sessions) + 1
          /\ session' = Len(sessions')
     /\ Cardinality({i \in 1..Len(sessions') : ~sessions'[i].closed}) <= 1
     /\ \A i \in 1..Len(sessions) :
          /\ sessions[i].closed => sessions'[i].closed
          /\ (~sessions[i].closed /\ sessions'[i].closed) =>
               /\ i = session
               /\ reqs' = reqs /\ session' = session
               /\ closed' \/ closed' = closed]_vars

\* A session the peer closed, the one that replaced it, still open, and no
\* close() so far.
C33_Witness ==
  /\ Len(sessions) = 2
  /\ sessions[1].closed /\ ~sessions[2].closed
  /\ session = 2
  /\ ~closed
  /\ \E r \in Reqs : reqs[r].sess = 1

\* C34: requests sent on different sessions were separated by the close of
\* the earlier session; every session but the first was opened by a request
\* sent on it, and every session but the last had been closed before the next
\* was opened: one close, one replacement.
C34_OneReplacementPerClose ==
  /\ \A r, q \in Reqs :
       (reqs[r].sess # 0 /\ reqs[r].sess < reqs[q].sess) => sessions[reqs[r].sess].closed
  /\ \A i \in 2..Len(sessions) : \E r \in Reqs : reqs[r].sess = i
  /\ \A i \in 1..(Len(sessions) - 1) : sessions[i].closed

\* The peer closed the first session with no request in flight, and every
\* request made since then was sent on the one session that replaced it.
C34_Witness ==
  /\ Len(sessions) = 2
  /\ sessions[1].closed
  /\ \A r \in Reqs : reqs[r].sess = 2
  /\ \E r, q \in Reqs : r # q /\ reqs[r].phase = "open" /\ reqs[q].phase = "open"

\* C35: a step changes the record of at most one request; the status of a
\* request is 0 or the status the peer gave its own stream; a resolved
\* request holds its own status and the parse of its own body.
C35_RequestsIsolated ==
  [][/\ Cardinality({r \in Reqs : reqs'[r] # reqs[r]}) <= 1
     /\ \A r \in Reqs :
          /\ reqs'[r].status \in {0, StatusOf(r)}
          /\ reqs'[r].promise.state = "resolved" =>
               reqs'[r].promise.value =
                 [status |-> reqs'[r].status, data |-> JSONParse(reqs'[r].responseBody)]
          /\ (reqs'[r].promise.state = "rejected"
                /\ reqs'[r].promise.value.name = "DataAPITimeout") =>
               reqs'[r].promise.value.command = reqs'[r].data]_vars

\* The later request is resolved while the earlier one, whose body has begun
\* to arrive, is still pending.
C35_Witness ==
  \E r, q \in Reqs :
    /\ r < q
    /\ reqs[q].promise.state = "resolved"
    /\ reqs[q].promise.value.status = StatusOf(q)
    /\ reqs[r].phase = "responded"
    /\ reqs[r].status = StatusOf(r)
    /\ reqs[r].responseBody # <<>>
    /\ reqs[r].promise.state = "pending"
    /\ reqs[r].sess = reqs[q].sess

\* C37: a request whose timer fired is rejected with a DataAPITimeout of its
\* body and its timeout, and with nothing made of the timeoutError its info
\* carried, be there one or none.
C37_TimeoutErrorIgnored ==
  \A r \in Reqs :
    reqs[r].timer = "fired" =>
      /\ reqs[r].timeoutError = TimeoutErrorOf(r)
      /\ reqs[r].promise.state = "rejected"
      /\ reqs[r].promise.value = DataAPITimeout(reqs[r].data, reqs[r].timeout)
      /\ reqs[r].timeoutError.some =>
           reqs[r].promise.value.name # reqs[r].timeoutError.val

C37_Witness ==
  \E r, q \in Reqs :
    /\ reqs[r].timeoutError.some /\ reqs[r].timer = "fired"
    /\ reqs[r].promise.value.name = "DataAPITimeout"
    /\ ~reqs[q].timeoutError.some /\ reqs[q].timer = "fired"
    /\ reqs[q].promise.value.name = "DataAPITimeout"

\* C20: no session error is uncaught; the step of a session error changes no
\* request; and a pending request is rejected only in a step of its own
\* timer, of its own stream ('error', or 'end' with a body that does not
\* parse) or of its own call on a closed strategy.
C20_SessionErrorsSwallowed ==
  [][/\ uncaught' # "uncaught"
     /\ uncaught' # uncaught => (reqs' = reqs /\ session' = session /\ closed' = closed)
     /\ \A r \in Reqs :
          (reqs[r].promise.state = "pending" /\ reqs'[r].promise.state = "rejected") =>
            \/ reqs[r].timer = "armed" /\ reqs'[r].timer = "fired"
            \/ reqs[r].phase \in {"open", "responded"} /\ reqs'[r].phase = "errored"
            \/ /\ reqs[r].phase \in {"open", "responded"}
               /\ reqs'[r].phase = "ended"
               /\ ~IsJSON(reqs[r].responseBody)
            \/ reqs[r].phase = "idle" /\ reqs'[r].phase = "nostream" /\ closed]_vars

\* The session had an error with a request in flight, which stayed pending
\* and was later rejected by the 'error' of its own stream.
C20_Witness ==
  /\ uncaught = "handled"
  /\ \E r \in Reqs :
       /\ reqs[r].phase = "errored"
       /\ sessions[reqs[r].sess].closed
       /\ ~closed
       /\ reqs[r].promise.value = PlainError("stream error")

(***************************************************************************)
(* Properties of the clients (checked under SpecClient).                   *)
(***************************************************************************)
\* C13: as long as no request() has sent a stream, no session has been
\* opened.
C13_LazySession ==
  (\A r \in Reqs : reqs[r].phase \in {"idle", "nostream"}) => sessions = <<>>

\* C14: the step that adds a cloned client gives it the strategy, the user
\* agent and the logSkippedOptions of the client it was cloned from; a Db
\* clone has its base URL and token too, an admin clone the endpoint and the
\* token its initializer set; the step opens no session, constructs no
\* strategy and leaves the session handle and the other clients as they were.
C14_CloneSharesStrategy ==
  [][(Len(clients') = Len(clients) + 1 /\ clients'[Len(clients')].clonedFrom # 0) =>
       LET k == clients'[Len(clients')]
           o == clients[k.clonedFrom]
       IN /\ k.requestStrategy = o.requestStrategy
          /\ k.userAgent = o.userAgent
          /\ k.logSkippedOptions = o.logSkippedOptions
          /\ k.cons = "DataApiHttpClient" =>
                (k.baseUrl = o.baseUrl /\ k.applicationToken = o.applicationToken)
          /\ k.cons = "DevopsApiHttpClient" =>
                /\ k.baseUrl \in {DevOpsEndpoint, CustomEndpoint}
                /\ k.applicationToken \in {o.applicationToken, AdminToken}
          /\ sessions' = sessions
          /\ session' = session
          /\ strategies' = strategies
          /\ SubSeq(clients', 1, Len(clients)) = clients]_vars

\* A Db client cloned from the root client and an admin client cloned from
\* that one, all on the strategy and the one session of the root client.
C14_Witness ==
  /\ Len(clients) = 3
  /\ clients[2].cons = "DataApiHttpClient" /\ clients[2].clonedFrom = 1
  /\ clients[3].cons = "DevopsApiHttpClient" /\ clients[3].clonedFrom = 2
  /\ clients[3].requestStrategy = clients[1].requestStrategy
  /\ Len(sessions) = 1

\* C25: the strategy of a client is the one given to its constructor when one
\* was given; otherwise it is the HTTP/2 strategy unless useHttp2 was false,
\* and then the HTTP/1.1 strategy; no step changes the strategy of a client
\* there is, nor what isUsingHttp2() answers for it.
C25_StrategyChosenOnce ==
  [][\A i \in 1..Len(clients') :
       LET c == clients'[i]
       IN /\ c.given # 0 => c.requestStrategy = c.given
          /\ c.given = 0 =>
               /\ IsUsingHttp2(c, strategies') = (c.useHttp2 # Some(FALSE))
               /\ strategies'[c.requestStrategy].kind = "http1" <=> c.useHttp2 = Some(FALSE)
          /\ i <= Len(clients) =>
               /\ c.requestStrategy = clients[i].requestStrategy
               /\ IsUsingHttp2(c, strategies') = IsUsingHttp2(clients[i], strategies)]_vars

C25_Witness ==
  /\ \E i \in 1..Len(clients) :
       clients[i].useHttp2 = Some(FALSE) /\ ~IsUsingHttp2(clients[i], strategies)
  /\ \E i \in 1..Len(clients) :
       /\ clients[i].given = 0
       /\ clients[i].useHttp2 = None
       /\ IsUsingHttp2(clients[i], strategies)
  /\ \E i \in 1..Len(clients) :
       /\ clients[i].given # 0
       /\ clients[i].requestStrategy = clients[i].given
  /\ closed

\* The client a client was cloned from, through all the clones between them.
RECURSIVE OriginalOf(_, _)
OriginalOf(cs, i) == IF cs[i].clonedFrom = 0 THEN i ELSE OriginalOf(cs, cs[i].clonedFrom)

\* C36: a client and the client it was cloned from answer isClosed() alike;
\* once the first strategy is closed it stays closed, isClosed() is true for
\* the first client and for every client cloned from it, and a request made
\* then is rejected with the closed-client error and opens no stream.
C36_CloseSharedByClones ==
  [][/\ \A i \in 1..Len(clients') :
          LET c == clients'[i] IN
          /\ c.clonedFrom # 0 =>
                IsClosed(c, strategies', closed')
                  = IsClosed(clients'[c.clonedFrom], strategies', closed')
          /\ (closed' /\ OriginalOf(clients', i) = 1) =>
                IsClosed(c, strategies', closed') = Some(TRUE)
     /\ closed =>
          /\ closed'
          /\ \A r \in Reqs :
               (reqs[r].phase = "idle" /\ reqs'[r] # reqs[r]) =>
                 /\ reqs'[r].phase = "nostream"
                 /\ reqs'[r].streams = 0
                 /\ reqs'[r].promise.state = "rejected"
                 /\ reqs'[r].promise.value = PlainError(ClosedMessage)]_vars

\* Closed with a Db client and an admin client cloned in a chain from the
\* first client: one request was sent before the close, one rejected after.
C36_Witness ==
  /\ closed
  /\ Len(clients) = 3
  /\ clients[2].clonedFrom = 1 /\ clients[3].clonedFrom = 2
  /\ \A i \in 1..3 : IsClosed(clients[i], strategies, closed) = Some(TRUE)
  /\ \E r, q \in Reqs :
       /\ reqs[r].streams = 1
       /\ reqs[q].phase = "nostream" /\ reqs[q].promise.value = PlainError(ClosedMessage)

\* C38: on every client, original or clone, the one own property that holds
\* the token is keyed by the symbol and is not enumerable; the info a client
\* hands to its strategy has the token of that client as its token, and a
\* request sent carries in its token header the token of a client of the
\* strategy.
C38_TokenNotEnumerable ==
  /\ \A i \in 1..Len(clients) :
       LET ps == OwnProperties(clients[i]) IN
       /\ \A p \in ps : p.field = "applicationToken" => (p.symbol /\ ~p.enumerable)
       /\ Cardinality({p \in ps : p.field = "applicationToken"}) = 1
       /\ "applicationToken" \notin {p.key : p \in {q \in ps : q.enumerable /\ ~q.symbol}}
       /\ \A r \in Reqs :
            LET info == StrategyInfo(clients[i], CallOf(clients[i], r)) IN
            /\ info.token = clients[i].applicationToken
            /\ Headers(info).token = clients[i].applicationToken
  /\ \A r \in Reqs :
       reqs[r].streams > 0 =>
         \E i \in 1..Len(clients) :
           /\ clients[i].requestStrategy = 1
           /\ reqs[r].headers.token = clients[i].applicationToken

\* A Db clone with the token of the first client and an admin clone with its
\* own token, and a request sent with each of the two tokens.
C38_Witness ==
  /\ \E i, j \in 1..Len(clients) :
       /\ clients[i].cons = "DataApiHttpClient" /\ clients[i].applicationToken = RootToken
       /\ clients[j].cons = "DevopsApiHttpClient" /\ clients[j].applicationToken = AdminToken
  /\ \E r, q \in Reqs :
       /\ reqs[r].streams > 0 /\ reqs[r].headers.token = RootToken
       /\ reqs[q].streams > 0 /\ reqs[q].headers.token = AdminToken

\* C15: every request is sent on a session connected to the origin of the
\* URL it was made for: a request of a clone with another base URL goes to
\* that endpoint, a request of the original client to its own.
C15_CloneEndpoint ==
  \A r \in Reqs :
    reqs[r].phase = "open" => sessions[reqs[r].sess].origin = Origin(reqs[r].url)

(***************************************************************************)
(* Properties of the administrative operations (checked under SpecAdmin).  *)
(***************************************************************************)
\* The statuses the operations are documented to wait for.
ExpectedTerminal(name) ==
  IF name \in {"dropDatabase", "drop"} THEN "TERMINATED" ELSE "ACTIVE"

ExpectedTransient(name) ==
  IF name = "createDatabase" THEN {"PENDING", "INITIALIZING"}
  ELSE IF name \in {"dropDatabase", "drop"} THEN {"TERMINATING"}
  ELSE {"MAINTENANCE"}

PolledOps == {"createDatabase", "dropDatabase"}

FetchedStatus(i) == fetched[i].status

IsTimeoutError == aresult.kind = "error" /\ aresult.error.name = "DevOpsAPITimeout"
IsUnexpectedError == aresult.kind = "error" /\ aresult.error.name = "DevOpsUnexpectedStateError"
IsRequestRejection == aresult.kind = "error" /\ aresult.error.name = "DevOpsAPIResponseError"

\* C4: the statuses fetched are transient ones followed by at most one other;
\* when the k-th fetch returns the terminal status the operation has returned
\* with exactly k fetches issued; a blocking operation returns only so; and a
\* transient status never ends the poll as reached or as unexpected.
C4_PollSuccess ==
  LET k == Len(fetched) IN
  aop.name \in PolledOps =>
    /\ \A i \in 1..(k - 1) : FetchedStatus(i) \in ExpectedTransient(aop.name)
    /\ (k >= 1 /\ FetchedStatus(k) = ExpectedTerminal(aop.name)) =>
          (apc = "done" /\ aresult = Returned /\ fetchCount = k)
    /\ (aresult = Returned /\ aop.options.blocking) =>
          (k >= 1 /\ FetchedStatus(k) = ExpectedTerminal(aop.name) /\ fetchCount = k)
    /\ (k >= 1 /\ FetchedStatus(k) \in ExpectedTransient(aop.name)) =>
          (aresult # Returned /\ ~IsUnexpectedError)

\* createDatabase returned after PENDING, PENDING, ACTIVE: 3 fetches.
C4_Witness ==
  /\ aop.name = "createDatabase"
  /\ Len(fetched) = 3
  /\ FetchedStatus(1) = "PENDING" /\ FetchedStatus(2) = "PENDING" /\ FetchedStatus(3) = "ACTIVE"
  /\ fetchCount = 3
  /\ aresult = Returned

\* C5: a fetched status that is neither terminal nor transient is the last one
\* fetched: the operation has failed with a DevOpsUnexpectedStateError whose
\* dbInfo is the record fetched, no fetch was issued after it and no sleep
\* was started after it.
C5_PollUnexpected ==
  aop.name \in PolledOps =>
    \A i \in 1..Len(fetched) :
      FetchedStatus(i) \notin ({ExpectedTerminal(aop.name)} \cup ExpectedTransient(aop.name)) =>
        /\ i = Len(fetched)
        /\ apc = "done"
        /\ IsUnexpectedError
        /\ aresult.error.dbInfo = fetched[i]
        /\ aresult.error.dbInfo.status = FetchedStatus(i)
        /\ fetchCount = i
        /\ sleeps = i - 1

\* The first fetch of createDatabase returned PARKED.
C5_Witness ==
  /\ aop.name = "createDatabase"
  /\ Len(fetched) = 1
  /\ FetchedStatus(1) = "PARKED"
  /\ sleeps = 0
  /\ IsUnexpectedError

\* C6: a poll that fetched only transient statuses and whose fetches did not
\* fail ends with a DevOpsAPITimeout naming the database and the timeout of
\* the options; the timeout error is thrown only after more than the timeout
\* has elapsed since the poll began, and no poll runs or fails later than
\* the timeout plus one poll interval plus the duration of one request.
C6_PollTimeout ==
  (aop.name \in PolledOps /\ trig = "resolved" /\ aop.options.blocking) =>
    LET elapsed == now - poll.start IN
    /\ IsTimeoutError =>
         /\ aresult.error.url = DbUrl(DbId)
         /\ aresult.error.timeout = aop.options.timeout
         /\ elapsed > aop.options.timeout
    /\ elapsed <= aop.options.timeout + poll.interval + Tick
    /\ (/\ apc = "done"
        /\ ~IsRequestRejection
        /\ \A i \in 1..Len(fetched) : FetchedStatus(i) \in ExpectedTransient(aop.name)) =>
         IsTimeoutError

\* A poll timed out after at least two fetches.
C6_Witness ==
  /\ aop.name \in PolledOps
  /\ IsTimeoutError
  /\ Len(fetched) >= 2
  /\ \A i \in 1..Len(fetched) : FetchedStatus(i) \in ExpectedTransient(aop.name)

\* The state of the poll: POLLING, REACHED, TIMED_OUT, UNEXPECTED, or FAILED
\* when a fetch rejected.
PollState ==
  IF apc \in {"fetch", "sleep"} THEN "POLLING"
  ELSE IF apc # "done" \/ fetchCount = 0 THEN "NONE"
  ELSE IF aresult = Returned THEN "REACHED"
  ELSE IF IsTimeoutError THEN "TIMED_OUT"
  ELSE IF IsUnexpectedError THEN "UNEXPECTED"
  ELSE "FAILED"

\* C7 (checked under SpecAdminFair): a poll in progress always leads to a poll
\* that has ended as REACHED, TIMED_OUT, UNEXPECTED or with the failure of a
\* fetch.
C7_PollTerminates ==
  (PollState = "POLLING") ~>
      (PollState \in {"REACHED", "TIMED_OUT", "UNEXPECTED", "FAILED"})

\* A poll that slept at least twice and ended by timeout.
C7_Witness == PollState = "TIMED_OUT" /\ sleeps >= 2

\* C8: a createDatabase with blocking disabled issues no status fetch and
\* starts no sleep, and has returned as soon as its POST has resolved.
C8_NonBlockingCreate ==
  (aop.name = "createDatabase" /\ aop.options.blocking = FALSE) =>
    /\ fetchCount = 0
    /\ fetched = <<>>
    /\ sleeps = 0
    /\ trig = "resolved" => (apc = "done" /\ aresult = Returned)

\* A non-blocking createDatabase returned while the database is transient.
C8_Witness ==
  /\ aop.name = "createDatabase"
  /\ aop.options.blocking = FALSE
  /\ aresult = Returned
  /\ dbStatus \in {"PENDING", "INITIALIZING"}

\* C9: a status fetch is issued only after the triggering request resolved;
\* when it rejected the operation has failed with that rejection and no
\* fetch was issued; createDatabase polls for ACTIVE with INITIALIZING and
\* PENDING legal, dropDatabase for TERMINATED with TERMINATING legal.
C9_TriggerBeforePoll ==
  /\ fetchCount > 0 => trig = "resolved"
  /\ trig = "rejected" =>
       (apc = "done" /\ aresult = Thrown(RequestRejection) /\ fetchCount = 0)
  /\ (aop.name = "createDatabase" /\ fetchCount > 0) =>
       (poll.target = "ACTIVE" /\ poll.legal = {"INITIALIZING", "PENDING"})
  /\ (aop.name = "dropDatabase" /\ fetchCount > 0) =>
       (poll.target = "TERMINATED" /\ poll.legal = {"TERMINATING"})

\* dropDatabase is polling after its POST resolved.
C9_Witness ==
  /\ aop.name = "dropDatabase"
  /\ trig = "resolved"
  /\ fetchCount > 0

\* C10: createNamespace, dropNamespace and drop, called with blocking left
\* enabled, return only after a status fetch has shown the database in the
\* terminal status of the operation.
C10_DbAdminOpsBlock ==
  (/\ aop.name \in {"createNamespace", "dropNamespace", "drop"}
   /\ aop.options.blocking
   /\ aresult = Returned) =>
     /\ Len(fetched) >= 1
     /\ FetchedStatus(Len(fetched)) = ExpectedTerminal(aop.name)

\* C11: the timeout of a blocking operation is one budget for the whole
\* operation: the start of the poll and its timeout are fixed when the poll
\* begins and no fetch or sleep changes them; the poll goes on to another
\* sleep only while the time since that start is within the timeout, and it
\* fails with the timeout error as soon as a fetch finds it exceeded.
C11_SharedBudget ==
  [][(aop.name \in PolledOps /\ apc \in {"fetch", "sleep"}) =>
       /\ poll' = poll
       /\ poll.timeout = aop.options.timeout
       /\ apc' = "sleep" => now' - poll.start <= aop.options.timeout
       /\ (aresult'.kind = "error" /\ aresult'.error.name = "DevOpsAPITimeout") =>
             now' - poll.start > aop.options.timeout
       /\ (/\ apc = "fetch"
           /\ now' - poll.start > aop.options.timeout
           /\ fetched' # fetched
           /\ fetched'[Len(fetched')].status \in poll.legal) =>
             (aresult'.kind = "error" /\ aresult'.error.name = "DevOpsAPITimeout")]_vars

\* A poll whose every fetch and sleep was shorter than its timeout, and
\* which timed out on the time they took together.
C11_Witness ==
  /\ aop.name \in PolledOps
  /\ IsTimeoutError
  /\ poll.interval = Tick
  /\ poll.timeout = 3 * Tick
  /\ sleeps >= 3

(***************************************************************************)
(* Properties of the functions that keep no state (checked under SpecPure).*)
(***************************************************************************)
\* C23: a constructor called where a window global exists, without a base URL
\* or without a token throws: it returns no client, names the fault in its
\* message, and has made no strategy and opened no session by then; a
\* constructor called with none of these faults returns a client.
C23_ConfigErrorsAtConstruction ==
  fcall.fn = "constructor" =>
    LET o == fcall.in.options
        faulty == fcall.in.window \/ o.baseUrl = <<>> \/ o.applicationToken = ""
    IN /\ fcall.out.ok = ~faulty
       /\ faulty =>
            /\ "client" \notin DOMAIN fcall.out
            /\ fcall.out.strategies = <<>>
            /\ fcall.out.sessions = <<>>
            /\ fcall.out.error =
                 (IF fcall.in.window THEN "not for use in a web browser"
                  ELSE IF o.baseUrl = <<>> THEN "baseUrl required for initialization"
                  ELSE "applicationToken required for initialization")
       /\ ~faulty => fcall.out.client.applicationToken = o.applicationToken

C23_Witness ==
  /\ fcall.fn = "constructor"
  /\ ~fcall.in.window
  /\ fcall.in.options.baseUrl # <<>>
  /\ fcall.in.options.applicationToken = ""
  /\ ~fcall.out.ok

\* C24: the info _request hands to the strategy has a timeout that is not
\* zero: the default when the caller gave none or zero, else the caller's;
\* the method and the params are the caller's, or the default method and the
\* empty mapping when the caller gave none; url and data are the caller's.
C24_RequestDefaults ==
  fcall.fn = "_request" =>
    LET i == fcall.in
        o == fcall.out
    IN /\ o.timeout # 0
       /\ o.timeout = (IF i.timeout = 0 THEN DEFAULT_TIMEOUT ELSE i.timeout)
       /\ o.method = (IF i.method.some THEN i.method.val ELSE DEFAULT_METHOD)
       /\ o.params = (IF i.params.some THEN i.params.val ELSE <<>>)
       /\ o.url = i.url
       /\ o.data = i.data

C24_Witness ==
  /\ fcall.fn = "_request"
  /\ fcall.in.timeout = 0
  /\ ~fcall.in.method.some
  /\ ~fcall.in.params.some
  /\ fcall.out.timeout = DEFAULT_TIMEOUT
  /\ fcall.out.method = DEFAULT_METHOD
  /\ fcall.out.params = <<>>

\* C26: the descriptors of a response error are as many as the elements of
\* the errors list of the body, the i-th made of the ID and the message of the
\* i-th element, undefined where the element has none; a body without an
\* errors list gives no descriptor; [{ID:1,message:"bad"},{ID:2}] gives
\* [{id:1,message:"bad"},{id:2,message:undefined}].
C26_ErrorExtraction ==
  fcall.fn = "DevOpsAPIResponseError" =>
    LET d == fcall.in.data
        ds == fcall.out.errors
    IN /\ (~d.some \/ ~d.val.errors.some) => ds = <<>>
       /\ (d.some /\ d.val.errors.some) =>
            /\ Len(ds) = Len(d.val.errors.val)
            /\ \A i \in 1..Len(ds) :
                 /\ ds[i].id = d.val.errors.val[i].ID
                 /\ ds[i].message = d.val.errors.val[i].message
       /\ d = Some([errors |-> Some(<<[ID |-> Some(1), message |-> Some("bad")],
                                      [ID |-> Some(2), message |-> None]>>)])
            => ds = <<[id |-> Some(1), message |-> Some("bad")],
                      [id |-> Some(2), message |-> None]>>

C26_Witness ==
  /\ fcall.fn = "DevOpsAPIResponseError"
  /\ fcall.in.data = Some([errors |-> Some(<<[ID |-> Some(1), message |-> Some("bad")],
                                             [ID |-> Some(2), message |-> None]>>)])
  /\ Len(fcall.out.errors) = 2
  /\ fcall.out.errors[2] = [id |-> Some(2), message |-> None]

\* C27: the message of a response error is the message of the element of
\* least index whose message is a non-empty string, and the fallback when the
\* errors list is absent, empty or without such an element; the status of
\* the error is the status of the response.
C27_SurfacedMessage ==
  fcall.fn = "DevOpsAPIResponseError" =>
    LET d == fcall.in.data
        es == IF d.some /\ d.val.errors.some THEN d.val.errors.val ELSE <<>>
        with == {i \in 1..Len(es) : es[i].message.some /\ es[i].message.val # ""}
    IN /\ with = {} => fcall.out.message = "Something went wrong"
       /\ with # {} =>
            \E i \in with : /\ \A j \in with : i <= j
                             /\ fcall.out.message = es[i].message.val
       /\ fcall.out.status = fcall.in.status

C27_Witness ==
  /\ fcall.fn = "DevOpsAPIResponseError"
  /\ fcall.in.data = Some([errors |-> Some(<<[ID |-> Some(1), message |-> Some("")],
                                             [ID |-> None, message |-> Some("worse")]>>)])
  /\ fcall.out.message = "worse"
  /\ fcall.out.status = 500

\* The keys handleValues looks for in a document.
ReservedKeys == {"$oid", "$numberDecimal", "$binary", "$date"}

\* A string, number, boolean, null, or a structure of them without a
\* reserved key.
RECURSIVE IsPlain(_)
IsPlain(v) ==
  CASE v.t \in {"null", "bool", "num", "str"} -> TRUE
    [] v.t = "doc" -> \A i \in 1..Len(v.fields) :
                         v.fields[i].k \notin ReservedKeys /\ IsPlain(v.fields[i].v)
    [] v.t = "arr" -> \A i \in 1..Len(v.items) : IsPlain(v.items[i])
    [] OTHER -> FALSE

\* C28 (every value): the text serializeCommand returns for a value parses
\* back to that value, whatever the value.
C28_RoundTrip ==
  fcall.fn = "serializeCommand" => fcall.decoded = fcall.in

\* C28 (plain values): the text parses back to the value when the value is a plain
\* string, number, boolean, null or a structure of them without a reserved
\* key; a large integer, a decimal, an identifier and a timestamp do not come
\* back: a large integer and a decimal parse to a JSON number, an ObjectId
\* to the string of its digits, an identifier of subtype 03 or 04 to a string.
C28_RoundTripPlain ==
  fcall.fn = "serializeCommand" =>
    LET v == fcall.in
        d == fcall.decoded
    IN /\ IsPlain(v) => d = v
       /\ v.t \in {"bigint", "Decimal128", "ObjectId", "Binary", "Date"} => d # v
       /\ v.t \in {"bigint", "Decimal128"} => d.t = "num"
       /\ v.t = "ObjectId" => d = JStr(v.hex)
       /\ (v.t = "Binary" /\ v.subType \in {"03", "04"}) => d.t = "str"

C28_Witness ==
  /\ fcall.fn = "serializeCommand"
  /\ fcall.pretty
  /\ fcall.in = JDoc(<<JField("f", JStr("a")), JField("g", JNull)>>)
  /\ fcall.decoded = fcall.in

C30_TimestampAndUUID ==
  fcall.fn = "serializeCommand" =>
    LET v == fcall.in
        d == fcall.decoded
        hyphens == {9, 14, 19, 24}
    IN /\ v.t = "Date" => d = JDoc(<<JField("$date", JTime(v.ms))>>)
       /\ (v.t = "Binary" /\ v.subType \in {"03", "04"} /\ Len(v.bytes) = 16) =>
            /\ d.t = "str"
            /\ Len(d.chars) = 36
            /\ \A k \in 1..36 :
                 IF k \in hyphens THEN d.chars[k] = "-"
                 ELSE LET h == k - Cardinality({x \in hyphens : x < k})
                          byte == v.bytes[(h + 1) \div 2]
                      IN d.chars[k] =
                           HexDigits[(IF h % 2 = 1 THEN byte \div 16 ELSE byte % 16) + 1]
       /\ (v.t = "Binary" /\ v.subType \notin {"03", "04"}) =>
            d = JDoc(<<JField("$binary",
                              JDoc(<<JField("base64", ToBase64(v.bytes)),
                                     JField("subType", JStr(v.subType))>>))>>)

\* The texts of the callers and of the library, joined by one space.
RECURSIVE SpaceJoined(_)
SpaceJoined(texts) ==
  IF Len(texts) = 1 THEN texts[1]
  ELSE texts[1] \o <<" ">> \o SpaceJoined(Tail(texts))

\* C31: the userAgent of a constructed client is the userAgent option when it
\* is given; otherwise it is made of the texts of the callers in the order
\* given, name/version or the bare name, and of the identity of the library,
\* joined by single spaces, with no space at either end; with no caller it is
\* the identity of the library.
C31_UserAgent ==
  (fcall.fn = "constructor" /\ fcall.out.ok) =>
    LET o == fcall.in.options
        ua == fcall.out.client.userAgent
        cs == IF ~o.caller.some THEN <<>>
              ELSE IF "one" \in DOMAIN o.caller.val THEN <<o.caller.val.one>>
              ELSE o.caller.val.many
        texts == [i \in 1..Len(cs) |->
                    IF cs[i].version = "" THEN <<cs[i].name>>
                    ELSE <<cs[i].name, "/", cs[i].version>>]
    IN /\ o.userAgent.some => ua = o.userAgent.val
       /\ ~o.userAgent.some =>
            /\ ua = SpaceJoined(Append(texts, <<"astra-db-ts", "/", "1.0.0">>))
            /\ ua[1] # " " /\ ua[Len(ua)] # " "
            /\ cs = <<>> => ua = <<"astra-db-ts", "/", "1.0.0">>

C31_Witness ==
  /\ fcall.fn = "constructor"
  /\ fcall.out.ok
  /\ fcall.in.options.caller =
       Some([many |-> <<[name |-> "my-lib", version |-> ""],
                        [name |-> "my-app", version |-> "2.0"]>>])
  /\ fcall.out.client.userAgent =
       <<"my-lib", " ", "my-app", "/", "2.0", " ", "astra-db-ts", "/", "1.0.0">>

====
